---- MODULE Spec2Model ----
(***************************************************************************)
(* RoboDK post processors: the sample post (src/BasePost.py), the Precise  *)
(* post (src/robodk_postprocessors/Precise.py) and the call recorder       *)
(* (src/robodk_postprocessors/PythonWriter.py).                            *)
(*                                                                         *)
(* Program text is modelled as text: a line is a TLA+ string built the way *)
(* the Python code builds it.  A Python value is a tagged record           *)
(*   [t |-> "NoneType"], [t |-> "bool", v |-> TRUE], [t |-> "int", v |-> 3] *)
(*   [t |-> "float", v |-> m]   the float m * 10^-6 (m an integer)         *)
(*   [t |-> "str", v |-> "abc"], [t |-> "list", v |-> <<values>>]          *)
(*   [t |-> "dict", v |-> <<[k |-> value, v |-> value], ...>>]             *)
(*   [t |-> "Mat", v |-> <<x, y, z, r, p, w>>]  a pose, by its XYZRPW      *)
(*                                              decomposition (10^-6 units)*)
(***************************************************************************)
EXTENDS Integers, Sequences, FiniteSets, TLC

\* ------------------------------------------------------------ bounds
\* Total cost of the calls made on one instance (see CallCost).
MaxCost == 4
\* The calls of a session that saves more than once.
MaxCalls == 3
\* The longest string handed to my_repr has maxstring + StrSlack characters.
StrSlack == 1
\* The largest dict handed to my_repr has MaxDictLen entries.
MaxDictLen == 5
\* The deepest list handed to my_repr nests MaxDepth lists.
MaxDepth == 7

\* ------------------------------------------------------------ values
VNone == [t |-> "NoneType"]
VBool(b) == [t |-> "bool", v |-> b]
VInt(n) == [t |-> "int", v |-> n]
VFloat(m) == [t |-> "float", v |-> m]
VStr(s) == [t |-> "str", v |-> s]
VList(xs) == [t |-> "list", v |-> xs]
VDict(kvs) == [t |-> "dict", v |-> kvs]
VMat(xyzrpw) == [t |-> "Mat", v |-> xyzrpw]
VEllipsis == [t |-> "ellipsis"]

IsNum(x) == x.t \in {"bool", "int", "float"}

\* The numeric value of a bool, int or float, in units of 10^-6.
Micro(x) ==
  CASE x.t = "int" -> x.v * 1000000
    [] x.t = "bool" -> (IF x.v THEN 1000000 ELSE 0)
    [] x.t = "float" -> x.v

\* Python truthiness of the values ask_user and show_result take.
Truthy(x) ==
  CASE x.t = "NoneType" -> FALSE
    [] x.t = "bool" -> x.v
    [] x.t \in {"int", "float"} -> x.v # 0
    [] x.t = "str" -> Len(x.v) > 0
    [] x.t \in {"list", "dict"} -> Len(x.v) > 0
    [] OTHER -> TRUE

\* ------------------------------------------------------------ text
RECURSIVE Pow10(_)
Pow10(d) == IF d = 0 THEN 1 ELSE 10 * Pow10(d - 1)

Abs(n) == IF n < 0 THEN -n ELSE n

RECURSIVE Zeros(_)
Zeros(n) == IF n <= 0 THEN "" ELSE "0" \o Zeros(n - 1)

\* n >= 0 in decimal, left-padded with zeros to width d.
ZeroPad(n, d) == Zeros(d - Len(ToString(n))) \o ToString(n)

\* a / b rounded to the nearest integer, ties to even (a >= 0, b > 0).
RoundDiv(a, b) ==
  LET q == a \div b
      r == a % b
  IN  IF 2 * r > b \/ (2 * r = b /\ q % 2 = 1) THEN q + 1 ELSE q

\* Python's '%.<d>f' % x, for x = n * 10^-scale and d <= scale.
FmtFixed(n, scale, d) ==
  LET q == RoundDiv(Abs(n), Pow10(scale - d))
  IN  (IF n < 0 THEN "-" ELSE "")
        \o ToString(q \div Pow10(d))
        \o (IF d = 0 THEN "" ELSE "." \o ZeroPad(q % Pow10(d), d))

\* '%.<d>f' % x for a numeric value x.
PctF(x, d) == FmtFixed(Micro(x), 6, d)

RECURSIVE TrimZeros(_)
\* A fraction's digits without trailing zeros, one digit at least.
TrimZeros(s) ==
  IF Len(s) > 1 /\ SubSeq(s, Len(s), Len(s)) = "0"
  THEN TrimZeros(SubSeq(s, 1, Len(s) - 1))
  ELSE s

\* The positional decimal text of n * 10^-scale with its trailing zeros trimmed
\* and one fraction digit kept: Python's repr of a float (in the range where
\* repr is positional) and numpy's trim='0'.
DecStr(n, scale) ==
  (IF n < 0 THEN "-" ELSE "")
    \o ToString(Abs(n) \div Pow10(scale))
    \o "." \o TrimZeros(ZeroPad(Abs(n) % Pow10(scale), scale))

\* Python's str(x) / '%s' % x.
PyStr(x) ==
  CASE x.t = "str" -> x.v
    [] x.t = "int" -> ToString(x.v)
    [] x.t = "float" -> DecStr(x.v, 6)
    [] x.t = "bool" -> (IF x.v THEN "True" ELSE "False")
    [] x.t = "NoneType" -> "None"

\* Whether the one-character string c occurs in s.
RECURSIVE Contains(_, _)
Contains(s, c) ==
  IF Len(s) = 0 THEN FALSE
  ELSE SubSeq(s, 1, 1) = c \/ Contains(SubSeq(s, 2, Len(s)), c)

\* Python's s[:n] and s[len(s)-n:] (n >= 0).
Left(s, n) == SubSeq(s, 1, IF n < Len(s) THEN n ELSE Len(s))
Right(s, n) == SubSeq(s, (IF n < Len(s) THEN Len(s) - n ELSE 0) + 1, Len(s))

\* ', '.join(pieces)
RECURSIVE JoinComma(_)
JoinComma(pieces) ==
  IF Len(pieces) = 0 THEN ""
  ELSE IF Len(pieces) = 1 THEN pieces[1]
  ELSE pieces[1] \o ", " \o JoinComma(Tail(pieces))

\* ------------------------------------------------------------ reprlib
\* The limits of reprlib.Repr that FloatRepr() is built with.
maxlevel == 6
maxdict == 4
maxstring == 30
maxlong == 40
maxother == 30
fillvalue == "..."

\* builtins.repr of a str: quoted with ' (with " when the text holds a ' and no
\* "), the quote character and the backslash escaped.
RECURSIVE EscapeStr(_, _)
EscapeStr(s, q) ==
  IF Len(s) = 0 THEN ""
  ELSE LET c == SubSeq(s, 1, 1)
           e == CASE c = "\\" -> "\\\\"
                  [] c = q -> "\\" \o q
                  [] c = "\n" -> "\\n"
                  [] c = "\t" -> "\\t"
                  [] OTHER -> c
       IN  e \o EscapeStr(SubSeq(s, 2, Len(s)), q)

builtins_repr_str(s) ==
  LET q == IF Contains(s, "'") /\ ~Contains(s, "\"") THEN "\"" ELSE "'"
  IN  q \o EscapeStr(s, q) \o q

\* The text a pose prints as (robodk's Mat.__repr__).
Mat_repr(p) ==
  "Pose(" \o JoinComma([i \in 1..Len(p.v) |-> FmtFixed(p.v[i], 6, 3)]) \o ")"

\* reprlib.Repr.repr_str
repr_str(x) ==
  LET s == builtins_repr_str(Left(x.v, maxstring))
  IN  IF Len(s) > maxstring
      THEN LET i == (maxstring - 3) \div 2
               j == maxstring - 3 - i
               s2 == builtins_repr_str(Left(x.v, i) \o Right(x.v, j))
           IN  Left(s2, i) \o fillvalue \o Right(s2, j)
      ELSE s

\* reprlib.Repr.repr_int
repr_int(x) ==
  LET s == ToString(x.v)
  IN  IF Len(s) > maxlong
      THEN LET i == (maxlong - 3) \div 2
               j == maxlong - 3 - i
           IN  Left(s, i) \o fillvalue \o Right(s, j)
      ELSE s

\* FloatRepr.repr_float: numpy.format_float_positional(value, precision=5,
\* trim='0'): at most five decimals, never scientific notation.
repr_float(x) ==
  LET n5 == RoundDiv(Abs(x.v), 10)
  IN  DecStr(IF x.v < 0 THEN -n5 ELSE n5, 5)

\* reprlib.Repr.repr_instance: every type without a repr_<type> method.
repr_instance(x) ==
  LET s == CASE x.t = "Mat" -> Mat_repr(x)
             [] x.t = "ellipsis" -> "Ellipsis"
             [] OTHER -> PyStr(x)
  IN  IF Len(s) > maxother
      THEN LET i == (maxother - 3) \div 2
               j == maxother - 3 - i
           IN  Left(s, i) \o fillvalue \o Right(s, j)
      ELSE s

\* reprlib.Repr.repr1 with FloatRepr's two overrides.  A list goes through
\* FloatRepr._repr_iterable, which hands len(x) on as maxiter; a dict goes
\* through reprlib.Repr.repr_dict, which FloatRepr does not override.
RECURSIVE repr1(_, _)
repr1(x, level) ==
  CASE x.t = "float" -> repr_float(x)
    [] x.t = "int" -> repr_int(x)
    [] x.t = "str" -> repr_str(x)
    [] x.t = "list" ->
         LET n == Len(x.v)
             maxiter == Len(x.v)
             shown == IF n < maxiter THEN n ELSE maxiter
             pieces == [k \in 1..shown |-> repr1(x.v[k], level - 1)]
                         \o (IF n > maxiter THEN <<fillvalue>> ELSE <<>>)
         IN  "[" \o (IF level <= 0 /\ n > 0 THEN fillvalue ELSE JoinComma(pieces))
                 \o "]"
    [] x.t = "dict" ->
         LET n == Len(x.v)
             shown == IF n < maxdict THEN n ELSE maxdict
             pieces == [k \in 1..shown |->
                          repr1(x.v[k].k, level - 1) \o ": "
                            \o repr1(x.v[k].v, level - 1)]
                         \o (IF n > maxdict THEN <<fillvalue>> ELSE <<>>)
         IN  IF n = 0 THEN "{}"
             ELSE IF level <= 0 THEN "{" \o fillvalue \o "}"
             ELSE "{" \o JoinComma(pieces) \o "}"
    [] OTHER -> repr_instance(x)

\* my_repr = FloatRepr().repr
my_repr(x) == repr1(x, maxlevel)

\* ------------------------------------------------------------ the host runtime's parser
\* What the Python interpreter makes of the text of a literal when the
\* generated script is run: None, True, False, numbers, quoted strings, lists,
\* dicts and the Ellipsis token '...'; anything else is a SyntaxError.
VSyntaxError == [t |-> "SyntaxError"]
ParseFail == [val |-> VSyntaxError, next |-> 0]

Ch(s, i) == IF i >= 1 /\ i <= Len(s) THEN SubSeq(s, i, i) ELSE ""
StartsWith(s, i, w) == i + Len(w) - 1 <= Len(s) /\ SubSeq(s, i, i + Len(w) - 1) = w

Digits == {"0", "1", "2", "3", "4", "5", "6", "7", "8", "9"}
DigitVal(c) == CHOOSE d \in 0..9 : ToString(d) = c

\* The index after the run of digits that starts at i.
RECURSIVE ScanDigits(_, _)
ScanDigits(s, i) == IF Ch(s, i) \in Digits THEN ScanDigits(s, i + 1) ELSE i

\* The number the digits s[i..j-1] write.
RECURSIVE NatOf(_, _, _)
NatOf(s, i, j) ==
  IF j <= i THEN 0 ELSE 10 * NatOf(s, i, j - 1) + DigitVal(Ch(s, j - 1))

ParseNumber(s, i) ==
  LET neg == Ch(s, i) = "-"
      a == IF neg THEN i + 1 ELSE i
      b == ScanDigits(s, a)
      ip == NatOf(s, a, b)
      isFloat == Ch(s, b) = "." /\ Ch(s, b + 1) \in Digits
      c == IF isFloat THEN ScanDigits(s, b + 1) ELSE b
      nd == c - (b + 1)
      frac == IF ~isFloat THEN 0
              ELSE IF nd <= 6 THEN NatOf(s, b + 1, c) * Pow10(6 - nd)
              ELSE NatOf(s, b + 1, b + 7)
      m == ip * 1000000 + frac
  IN  IF b = a THEN ParseFail
      ELSE IF isFloat THEN [val |-> VFloat(IF neg THEN -m ELSE m), next |-> c]
      ELSE [val |-> VInt(IF neg THEN -ip ELSE ip), next |-> c]

\* The body of a string literal opened with quote q, from index i on.
RECURSIVE ParseStrBody(_, _, _, _)
ParseStrBody(s, i, q, acc) ==
  LET c == Ch(s, i)
      d == Ch(s, i + 1)
  IN  IF c = "" THEN ParseFail
      ELSE IF c = q THEN [val |-> VStr(acc), next |-> i + 1]
      ELSE IF c = "\\"
           THEN IF d = "" THEN ParseFail
                ELSE ParseStrBody(s, i + 2, q,
                       acc \o (CASE d = "n" -> "\n" [] d = "t" -> "\t" [] OTHER -> d))
      ELSE ParseStrBody(s, i + 1, q, acc \o c)

RECURSIVE ParseValue(_, _)
RECURSIVE ParseItems(_, _, _)
RECURSIVE ParseEntries(_, _, _)

ParseValue(s, i) ==
  LET c == Ch(s, i)
  IN  CASE StartsWith(s, i, "None") -> [val |-> VNone, next |-> i + 4]
        [] StartsWith(s, i, "True") -> [val |-> VBool(TRUE), next |-> i + 4]
        [] StartsWith(s, i, "False") -> [val |-> VBool(FALSE), next |-> i + 5]
        [] StartsWith(s, i, "...") -> [val |-> VEllipsis, next |-> i + 3]
        [] c \in {"'", "\""} -> ParseStrBody(s, i + 1, c, "")
        [] c \in Digits \/ c = "-" -> ParseNumber(s, i)
        [] c = "[" ->
             IF Ch(s, i + 1) = "]" THEN [val |-> VList(<<>>), next |-> i + 2]
             ELSE ParseItems(s, i + 1, <<>>)
        [] c = "{" ->
             IF Ch(s, i + 1) = "}" THEN [val |-> VDict(<<>>), next |-> i + 2]
             ELSE ParseEntries(s, i + 1, <<>>)
        [] OTHER -> ParseFail

\* The items of a list display after its '[' .
ParseItems(s, i, acc) ==
  LET r == ParseValue(s, i)
  IN  IF r.val.t = "SyntaxError" THEN ParseFail
      ELSE IF Ch(s, r.next) = "]"
           THEN [val |-> VList(Append(acc, r.val)), next |-> r.next + 1]
      ELSE IF StartsWith(s, r.next, ", ")
           THEN ParseItems(s, r.next + 2, Append(acc, r.val))
      ELSE ParseFail

\* The key: value entries of a dict display after its '{' .  An item without
\* ': value' (such as '...') is no dict entry.
ParseEntries(s, i, acc) ==
  LET k == ParseValue(s, i)
      v == IF k.val.t # "SyntaxError" /\ StartsWith(s, k.next, ": ")
           THEN ParseValue(s, k.next + 2) ELSE ParseFail
      e == Append(acc, [k |-> k.val, v |-> v.val])
  IN  IF v.val.t = "SyntaxError" THEN ParseFail
      ELSE IF Ch(s, v.next) = "}" THEN [val |-> VDict(e), next |-> v.next + 1]
      ELSE IF StartsWith(s, v.next, ", ") THEN ParseEntries(s, v.next + 2, e)
      ELSE ParseFail

\* eval(text) of a literal's text.
PyEval(text) ==
  LET r == ParseValue(text, 1)
  IN  IF r.val.t # "SyntaxError" /\ r.next = Len(text) + 1 THEN r.val
      ELSE VSyntaxError

\* ------------------------------------------------------------ calls and their outcome
\* A method returns the instance as it leaves it and the exception it raised
\* ("none": it returned normally).
Ok(self) == [self |-> self, exc |-> "none"]
Raise(self, e) == [self |-> self, exc |-> e]

\* ProgSave and ProgSendRobot also act on the environment:
\*   dirs     the directories that exist
\*   files    the files written, in order: [path, text]
\*   opened   the viewers launched: [app, file]
\*   mbox     the message boxes shown
\*   uploads  the calls of UploadFTP: [files, ip, path, user, pass]
\*   dialogs  what each save dialog shown has answered: None or the file chosen
OkEnv(self, env) == [self |-> self, env |-> env, exc |-> "none"]
RaiseEnv(self, env, e) == [self |-> self, env |-> env, exc |-> e]

\* The directory part of a path: what precedes its last '/'.
RECURSIVE Dirname(_)
Dirname(p) ==
  IF Len(p) = 0 THEN ""
  ELSE IF SubSeq(p, Len(p), Len(p)) = "/" THEN SubSeq(p, 1, Len(p) - 1)
  ELSE Dirname(SubSeq(p, 1, Len(p) - 1))

DirExists(env, folder) == folder \in env.dirs

\* open(path, "w") followed by the write of text and the close.
WriteFile(env, path, text) ==
  [env EXCEPT !.files = Append(@, [path |-> path, text |-> text])]
CanOpen(env, path) == Dirname(path) \in env.dirs

\* Every line followed by a newline.
RECURSIVE JoinLines(_)
JoinLines(lines) ==
  IF Len(lines) = 0 THEN "" ELSE lines[1] \o "\n" \o JoinLines(Tail(lines))

\* ------------------------------------------------------------ src/BasePost.py
BasePost_PROG_EXT == "txt"

BasePost_pose_2_str(pose) ==
  IF pose.t # "Mat" THEN [exc |-> "TypeError"]
  ELSE [exc |-> "none",
        v |-> "X" \o FmtFixed(pose.v[1], 6, 3) \o " Y" \o FmtFixed(pose.v[2], 6, 3)
                \o " Z" \o FmtFixed(pose.v[3], 6, 3) \o " R" \o FmtFixed(pose.v[4], 6, 3)
                \o " P" \o FmtFixed(pose.v[5], 6, 3) \o " W" \o FmtFixed(pose.v[6], 6, 3)]

BasePost_data == <<"A", "B", "C", "D", "E", "F", "G", "H", "I", "J", "K", "L">>

RECURSIVE BasePost_joints_loop(_, _, _)
BasePost_joints_loop(joints, i, str) ==
  IF i > Len(joints) THEN str
  ELSE BasePost_joints_loop(joints, i + 1,
         str \o BasePost_data[i] \o PctF(joints[i], 6) \o " ")

BasePost_joints_2_str_clip(joints) ==
  LET n == IF Len(joints.v) > Len(BasePost_data) THEN Len(BasePost_data)
           ELSE Len(joints.v)
      str == BasePost_joints_loop(SubSeq(joints.v, 1, n), 1, "")
  IN  [exc |-> "none", v |-> SubSeq(str, 1, Len(str) - 1)]
BasePost_joints_2_str(joints) ==
  IF Len(joints.v) > Len(BasePost_data) THEN [exc |-> "IndexError"]
  ELSE LET str == BasePost_joints_loop(joints.v, 1, "")
       IN  [exc |-> "none", v |-> SubSeq(str, 1, Len(str) - 1)]

BasePost_init(robotpost, robotname, robot_axes) ==
  [ROBOT_POST |-> robotpost, ROBOT_NAME |-> robotname, PROG_FILES |-> VList(<<>>),
   PROG |-> <<>>, LOG |-> "", nAxes |-> robot_axes]

BasePost_addline_prepend(self, newline) == [self EXCEPT !.PROG = <<newline>> \o @]
BasePost_addline(self, newline) == [self EXCEPT !.PROG = Append(@, newline)]

BasePost_addlog(self, newline) == [self EXCEPT !.LOG = @ \o newline \o "\n"]

BasePost_ProgStart(self, progname) ==
  Ok(BasePost_addline(self, "PROC " \o PyStr(progname) \o "()"))

BasePost_ProgFinish(self, progname) == Ok(BasePost_addline(self, "ENDPROC"))

\* dlg is what getSaveFile answers if it is asked: VNone (the user cancelled)
\* or the name of the file the user chose.
BasePost_ProgSave_forgets(self, env, folder, progname, ask_user, show_result, dlg) ==
  LET asked == Truthy(ask_user) \/ ~DirExists(env, folder.v)
      filesave == IF asked THEN dlg.v
                  ELSE folder.v \o "/" \o progname.v \o "." \o BasePost_PROG_EXT
      envd == IF asked THEN [env EXCEPT !.dialogs = Append(@, dlg)] ELSE env
  IN  IF asked /\ dlg = VNone THEN OkEnv([self EXCEPT !.PROG = <<>>], envd)
      ELSE IF ~CanOpen(env, filesave) THEN RaiseEnv(self, envd, "FileNotFoundError")
      ELSE OkEnv(self, WriteFile(envd, filesave, JoinLines(self.PROG)))

BasePost_ProgSave(self, env, folder, progname, ask_user, show_result, dlg) ==
  LET progname2 == progname.v \o "." \o BasePost_PROG_EXT
      asked == Truthy(ask_user) \/ ~DirExists(env, folder.v)
      filesave == IF asked THEN dlg.v ELSE folder.v \o "/" \o progname2
      envd == IF asked THEN [env EXCEPT !.dialogs = Append(@, dlg)] ELSE env
      env1 == WriteFile(envd, filesave, JoinLines(self.PROG))
      env2 == IF ~Truthy(show_result) THEN env1
              ELSE LET app == IF show_result.t = "str" THEN show_result.v
                              ELSE "os.startfile"
                       e == [env1 EXCEPT !.opened =
                               Append(@, [app |-> app, file |-> filesave])]
                   IN  IF Len(self.LOG) > 0
                       THEN [e EXCEPT !.mbox =
                               Append(@, "Program generation LOG:\n\n" \o self.LOG)]
                       ELSE e
  IN  IF asked /\ dlg = VNone THEN OkEnv(self, envd)
      ELSE IF ~CanOpen(env, filesave) THEN RaiseEnv(self, envd, "FileNotFoundError")
      ELSE OkEnv(self, env2)

BasePost_ProgSendRobot(self, env, robot_ip, remote_path, ftp_user, ftp_pass) ==
  OkEnv(self, [env EXCEPT !.uploads =
                 Append(@, [files |-> self.PROG_FILES, ip |-> robot_ip,
                            path |-> remote_path, user |-> ftp_user,
                            pass |-> ftp_pass])])

BasePost_MoveJ(self, pose, joints, conf_RLF) ==
  LET j == BasePost_joints_2_str(joints)
  IN  IF j.exc # "none" THEN Raise(self, j.exc)
      ELSE Ok(BasePost_addline(self, "MOVJ " \o j.v))

BasePost_MoveL(self, pose, joints, conf_RLF) ==
  LET p == BasePost_pose_2_str(pose)
  IN  IF p.exc # "none" THEN Raise(self, p.exc)
      ELSE Ok(BasePost_addline(self, "MOVL " \o p.v))

BasePost_MoveC(self, pose1, joints1, pose2, joints2, conf_RLF_1, conf_RLF_2) ==
  LET p1 == BasePost_pose_2_str(pose1)
      p2 == BasePost_pose_2_str(pose2)
  IN  IF p1.exc # "none" THEN Raise(self, p1.exc)
      ELSE IF p2.exc # "none" THEN Raise(self, p2.exc)
      ELSE Ok(BasePost_addline(self, "MOVC " \o p1.v \o " " \o p2.v))

BasePost_setFrame(self, pose, frame_id, frame_name) ==
  LET p == BasePost_pose_2_str(pose)
  IN  IF p.exc # "none" THEN Raise(self, p.exc)
      ELSE Ok(BasePost_addline(self, "BASE_FRAME " \o p.v))

BasePost_setTool(self, pose, tool_id, tool_name) ==
  LET p == BasePost_pose_2_str(pose)
  IN  IF p.exc # "none" THEN Raise(self, p.exc)
      ELSE Ok(BasePost_addline(self, "TOOL_FRAME " \o p.v))

\* time_ms * 0.001 is Micro(time_ms) * 10^-9.
BasePost_Pause(self, time_ms) ==
  IF Micro(time_ms) < 0 THEN Ok(BasePost_addline(self, "PAUSE"))
  ELSE Ok(BasePost_addline(self, "WAIT " \o FmtFixed(Micro(time_ms), 9, 3)))

BasePost_setSpeed(self, speed_mms) ==
  Ok(BasePost_addlog(self, "setSpeed not defined (" \o PctF(speed_mms, 2) \o " mms)"))

BasePost_setAcceleration(self, accel_mmss) ==
  Ok(BasePost_addlog(self, "setAcceleration not defined"))

BasePost_setSpeedJoints(self, speed_degs) ==
  Ok(BasePost_addlog(self, "setSpeedJoints not defined"))

BasePost_setAccelerationJoints(self, accel_degss) ==
  Ok(BasePost_addlog(self, "setAccelerationJoints not defined"))

BasePost_setZoneData(self, zone_mm) ==
  Ok(BasePost_addlog(self, "setZoneData not defined (" \o PctF(zone_mm, 1) \o " mm)"))

\* The io_var and io_value texts of setDO and waitDI (prefix: 'OUT' or 'IN').
BasePost_io_var(io_var, prefix) ==
  IF io_var.t # "str" THEN prefix \o "[" \o PyStr(io_var) \o "]" ELSE io_var.v

BasePost_io_value_ge(io_value) ==
  IF io_value.t # "str"
  THEN (IF Micro(io_value) >= 0 THEN "TRUE" ELSE "FALSE")
  ELSE io_value.v
BasePost_io_value(io_value) ==
  IF io_value.t # "str"
  THEN (IF Micro(io_value) > 0 THEN "TRUE" ELSE "FALSE")
  ELSE io_value.v

BasePost_setDO(self, io_var, io_value) ==
  Ok(BasePost_addline(self,
       BasePost_io_var(io_var, "OUT") \o "=" \o BasePost_io_value(io_value)))

BasePost_waitDI_le(self, io_var, io_value, timeout_ms) ==
  LET var == BasePost_io_var(io_var, "IN")
      val == BasePost_io_value(io_value)
  IN  IF Micro(timeout_ms) <= 0
      THEN Ok(BasePost_addline(self, "WAIT FOR " \o var \o "==" \o val))
      ELSE Ok(BasePost_addline(self, "WAIT FOR " \o var \o "==" \o val
                                       \o " TIMEOUT=" \o PctF(timeout_ms, 1)))
BasePost_waitDI(self, io_var, io_value, timeout_ms) ==
  LET var == BasePost_io_var(io_var, "IN")
      val == BasePost_io_value(io_value)
  IN  IF Micro(timeout_ms) < 0
      THEN Ok(BasePost_addline(self, "WAIT FOR " \o var \o "==" \o val))
      ELSE Ok(BasePost_addline(self, "WAIT FOR " \o var \o "==" \o val
                                       \o " TIMEOUT=" \o PctF(timeout_ms, 1)))

\* code.replace(' ', '_') is evaluated and its result dropped: code is unchanged.
BasePost_RunCode(self, code, is_function_call) ==
  IF Truthy(is_function_call)
  THEN LET code2 == IF Right(code.v, 1) # ")" THEN code.v \o "()" ELSE code.v
       IN  Ok(BasePost_addline(self, code2))
  ELSE Ok(BasePost_addline(self, code.v))

BasePost_RunMessage(self, message, iscomment) ==
  IF Truthy(iscomment) THEN Ok(BasePost_addline(self, "% " \o message.v))
  ELSE Ok(BasePost_addline(self, "% Show message: " \o message.v))

\* ------------------------------------------------------------ src/robodk_postprocessors/Precise.py
Precise_PROG_EXT == "gpl"

Precise_data == <<",", ",", ",", ",", ",", "">>

RECURSIVE Precise_angles_loop(_, _, _)
Precise_angles_loop(angles, i, str) ==
  IF i > Len(angles) THEN str
  ELSE Precise_angles_loop(angles, i + 1,
         str \o PctF(angles[i], 3) \o Precise_data[i] \o " ")

Precise_angles_2_str(angles) ==
  IF Len(angles.v) > Len(Precise_data) THEN [exc |-> "IndexError"]
  ELSE LET str == Precise_angles_loop(angles.v, 1, "")
       IN  [exc |-> "none", v |-> SubSeq(str, 1, Len(str) - 1)]

\* eye(4): the identity pose.
Precise_eye4 == VMat(<<0, 0, 0, 0, 0, 0>>)

Precise_init(robotpost, robotname, robot_axes) ==
  [ROBOT_NAME |-> robotname, PROG_FILES |-> VList(<<>>), nPROGS |-> 0, PROG |-> "",
   TAB |-> "", LOG |-> "", nAxes |-> robot_axes, FRAME |-> Precise_eye4,
   TOOL |-> Precise_eye4]

Precise_addline_prepend(self, newline) == [self EXCEPT !.PROG = newline \o "\n" \o @]
Precise_addline(self, newline) == [self EXCEPT !.PROG = @ \o newline \o "\n"]

Precise_addlog(self, newline) == [self EXCEPT !.LOG = @ \o newline \o "\n"]

RECURSIVE Precise_addlines(_, _)
Precise_addlines(self, lines) ==
  IF Len(lines) = 0 THEN self
  ELSE Precise_addlines(Precise_addline(self, lines[1]), Tail(lines))

Precise_preamble ==
  <<"Module GPL", "    Public Sub MAIN", "        Dim prof1 As New Profile",
    "        Dim loc1 As New Location", "        prof1.Speed = 40",
    "        prof1.Straight = True", "        Controller.PowerEnabled = 1",
    "        Robot.Attached = 1", "        Robot.Home">>

Precise_ProgStart_always(self, progname) ==
  Ok(Precise_addlines([self EXCEPT !.nPROGS = @ + 1], Precise_preamble))
Precise_ProgStart(self, progname) ==
  LET s1 == [self EXCEPT !.nPROGS = @ + 1]
  IN  IF s1.nPROGS = 1 THEN Ok(Precise_addlines(s1, Precise_preamble)) ELSE Ok(s1)

Precise_ProgFinish(self, progname) ==
  Ok(Precise_addlines(self, <<"    End Sub", "End Module">>))

Precise_ProgSave(self, env, folder, progname, ask_user, show_result, dlg) ==
  LET progname2 == "Main" \o "." \o Precise_PROG_EXT
      asked == Truthy(ask_user) \/ ~DirExists(env, folder.v)
      filesave == IF asked THEN dlg.v ELSE folder.v \o "/" \o progname2
      envd == IF asked THEN [env EXCEPT !.dialogs = Append(@, dlg)] ELSE env
      env1 == WriteFile(envd, filesave, self.PROG)
      self1 == [self EXCEPT !.PROG_FILES = VStr(filesave)]
      env2 == IF ~Truthy(show_result) THEN env1
              ELSE LET app == CASE show_result.t = "str" -> show_result.v
                                [] show_result.t = "list" -> PyStr(show_result.v[1])
                                [] OTHER -> "os.startfile"
                       e == [env1 EXCEPT !.opened =
                               Append(@, [app |-> app, file |-> filesave])]
                   IN  IF Len(self.LOG) > 0
                       THEN [e EXCEPT !.mbox =
                               Append(@, "Program generation LOG:\n\n" \o self.LOG)]
                       ELSE e
  IN  IF asked /\ dlg = VNone THEN OkEnv(self, envd)
      ELSE IF ~CanOpen(env, filesave) THEN RaiseEnv(self, envd, "FileNotFoundError")
      ELSE OkEnv(self1, env2)

Precise_ProgSendRobot(self, env, robot_ip, remote_path, ftp_user, ftp_pass) ==
  OkEnv(self, [env EXCEPT !.uploads =
                 Append(@, [files |-> self.PROG_FILES, ip |-> robot_ip,
                            path |-> remote_path, user |-> ftp_user,
                            pass |-> ftp_pass])])

Precise_MoveJ(self, pose, joints, conf_RLF) ==
  LET j == Precise_angles_2_str(joints)
  IN  IF j.exc # "none" THEN Raise(self, j.exc)
      ELSE Ok(Precise_addline(self,
                "        Move.Loc(loc1.XYZValue(" \o j.v \o "),prof1)"))

Precise_MoveL(self, pose, joints, conf_RLF) ==
  LET j == Precise_angles_2_str(joints)
  IN  IF j.exc # "none" THEN Raise(self, j.exc)
      ELSE Ok(Precise_addline(self,
                "        Move.Loc(loc1.XYZValue(" \o j.v \o "),prof1)"))

Precise_MoveC(self, pose1, joints1, pose2, joints2, conf_RLF_1, conf_RLF_2) ==
  LET j1 == Precise_angles_2_str(joints1)
      j2 == Precise_angles_2_str(joints2)
  IN  IF j1.exc # "none" THEN Raise(self, j1.exc)
      ELSE IF j2.exc # "none" THEN Raise(self, j2.exc)
      ELSE Ok(Precise_addline(self,
                "        Move.Circle(loc1.XYZValue(" \o j1.v \o "),loc1.XYZValue("
                  \o j2.v \o "),prof1) "))

Precise_setFrame(self, pose, frame_id, frame_name) == Ok([self EXCEPT !.FRAME = pose])

Precise_setTool(self, pose, tool_id, tool_name) == Ok([self EXCEPT !.TOOL = pose])

\* '%s' % (time_ms * 0.001): the repr of the float Micro(time_ms) * 10^-9.
Precise_Pause(self, time_ms) ==
  Ok(Precise_addline(self,
       "        Move.Delay(" \o DecStr(Micro(time_ms), 9) \o ")"))

Precise_setSpeed(self, speed_mms) ==
  Ok(Precise_addline(self, "        prof1.Speed = " \o PctF(speed_mms, 2)))

\* The class names this method Acceleration: it has no setAcceleration.
Precise_Acceleration(self, accel_ptg) ==
  Ok(Precise_addlines(self, <<"        prof1.Accel = " \o PctF(accel_ptg, 2),
                             "        prof1.Decel = " \o PctF(accel_ptg, 2)>>))

\* RobotPost has no attribute setAcceleration: the call raises before any
\* statement of the class runs.
Precise_setAcceleration(self, accel_mmss) == Raise(self, "AttributeError")

Precise_setSpeedJoints(self, speed_degs) ==
  Ok(Precise_addlog(self, "setSpeedJoints not defined"))

Precise_setAccelerationJoints(self, accel_degss) ==
  Ok(Precise_addlog(self, "setAccelerationJoints not defined"))

Precise_setZoneData(self, zone_mm) ==
  Ok(Precise_addlog(self, "setZoneData not defined (" \o PctF(zone_mm, 1) \o " mm)"))

Precise_io_var(io_var, prefix) ==
  IF io_var.t # "str" THEN prefix \o "[" \o PyStr(io_var) \o "]" ELSE io_var.v

Precise_io_value(io_value) ==
  IF io_value.t # "str"
  THEN (IF Micro(io_value) > 0 THEN "TRUE" ELSE "FALSE")
  ELSE io_value.v

Precise_setDO(self, io_var, io_value) ==
  Ok(Precise_addline(self,
       Precise_io_var(io_var, "OUT") \o "=" \o Precise_io_value(io_value)))

Precise_waitDI(self, io_var, io_value, timeout_ms) ==
  LET var == Precise_io_var(io_var, "IN")
      val == Precise_io_value(io_value)
  IN  IF Micro(timeout_ms) < 0
      THEN Ok(Precise_addline(self, "WAIT FOR " \o var \o "==" \o val))
      ELSE Ok(Precise_addline(self, "WAIT FOR " \o var \o "==" \o val
                                      \o " TIMEOUT=" \o PctF(timeout_ms, 1)))

Precise_RunCode(self, code, is_function_call) ==
  IF Truthy(is_function_call)
  THEN LET code2 == IF Right(code.v, 1) # ")" THEN code.v \o "()" ELSE code.v
       IN  Ok(Precise_addline(self, code2))
  ELSE Ok(Precise_addline(self, code.v))

Precise_RunMessage(self, message, iscomment) ==
  IF Truthy(iscomment) THEN Ok(Precise_addline(self, "' " \o message.v))
  ELSE Ok(Precise_addline(self, "Print \"" \o message.v \o "\""))

\* ------------------------------------------------------------ signatures
\* The parameters of each instruction method after self, in signature order.
\* The three classes declare the same names.
Signature(m) ==
  CASE m \in {"ProgStart", "ProgFinish"} -> <<"progname">>
    [] m = "ProgSave" -> <<"folder", "progname", "ask_user", "show_result">>
    [] m = "ProgSendRobot" -> <<"robot_ip", "remote_path", "ftp_user", "ftp_pass">>
    [] m \in {"MoveJ", "MoveL"} -> <<"pose", "joints", "conf_RLF">>
    [] m = "MoveC" ->
         <<"pose1", "joints1", "pose2", "joints2", "conf_RLF_1", "conf_RLF_2">>
    [] m = "setFrame" -> <<"pose", "frame_id", "frame_name">>
    [] m = "setTool" -> <<"pose", "tool_id", "tool_name">>
    [] m = "Pause" -> <<"time_ms">>
    [] m = "setSpeed" -> <<"speed_mms">>
    [] m = "setAcceleration" -> <<"accel_mmss">>
    [] m = "setSpeedJoints" -> <<"speed_degs">>
    [] m = "setAccelerationJoints" -> <<"accel_degss">>
    [] m = "setZoneData" -> <<"zone_mm">>
    [] m = "setDO" -> <<"io_var", "io_value">>
    [] m = "waitDI" -> <<"io_var", "io_value", "timeout_ms">>
    [] m = "RunCode" -> <<"code", "is_function_call">>
    [] m = "RunMessage" -> <<"message", "iscomment">>

\* The default of parameter p of method m in class k.  Precise.ProgSave
\* defaults ask_user and show_result to True, the other two classes to False.
Default(k, m, p) ==
  CASE p \in {"ask_user", "show_result"} -> VBool(k = "Precise")
    [] p = "timeout_ms" -> VInt(-1)
    [] p \in {"is_function_call", "iscomment"} -> VBool(FALSE)
    [] OTHER -> VNone

\* A call is [m |-> method, a |-> the arguments passed, by parameter name].
\* The value parameter p takes in class k: the one passed, or the default.
Param(k, c, p) == IF p \in DOMAIN c.a THEN c.a[p] ELSE Default(k, c.m, p)

BoundArguments_defaults(c) ==
  [i \in 1..Len(Signature(c.m)) |->
     [kw |-> Signature(c.m)[i], arg |-> Param("PythonWriter", c, Signature(c.m)[i])]]

\* inspect.signature(f).bind(*args, **kwargs).arguments without self: the
\* parameters the caller passed, in signature order.
BoundArguments(c) ==
  LET names == SelectSeq(Signature(c.m), LAMBDA p : p \in DOMAIN c.a)
  IN  [i \in 1..Len(names) |-> [kw |-> names[i], arg |-> c.a[names[i]]]]

\* ------------------------------------------------------------ src/robodk_postprocessors/PythonWriter.py
PythonWriter_PROG_EXT == "py"

\* Path(inspect.getfile(type(self))).parent.parent: where the package is
\* installed.
PythonWriter_dir_path == "/opt/posts"

PythonWriter_init(robotpost, robotname, robot_axes) ==
  [ROBOT_POST |-> robotpost, ROBOT_NAME |-> robotname, PROG_FILES |-> VList(<<>>),
   PROG |-> <<>>, LOG |-> "", nAxes |-> robot_axes, top_lines |-> <<>>,
   real_robot_post |-> "", config |-> <<>>]

\* The value of key k in a config (a sequence of [k, v]), or d.
ConfigGet(config, k, d) ==
  IF \E i \in 1..Len(config) : config[i].k = k
  THEN config[CHOOSE i \in 1..Len(config) : config[i].k = k].v
  ELSE d

\* BasePost.from_config builds the instance from the config's base fields and
\* sets every other field of the config as an attribute; RobotPost.from_config
\* keeps the config itself.
PythonWriter_from_config(config) ==
  [PythonWriter_init(ConfigGet(config, "robot_post", VStr("PythonWriter")),
                     ConfigGet(config, "robot_name", VStr("")),
                     ConfigGet(config, "robot_axes", VInt(6)))
     EXCEPT !.real_robot_post = PyStr(ConfigGet(config, "real_robot_post", VStr(""))),
            !.config = config]

PythonWriter_addline_prepend(self, newline) == [self EXCEPT !.PROG = <<newline>> \o @]
PythonWriter_addline(self, newline) == [self EXCEPT !.PROG = Append(@, newline)]

PythonWriter_cfg_to_remove == {"real_robot_post", "robot_post", "robot_name", "robot_axes"}

PythonWriter_add_python_header(self) ==
  LET extra_cfg == SelectSeq(self.config,
                             LAMBDA e : e.k \notin PythonWriter_cfg_to_remove)
      top_lines ==
        <<"import sys\nimport os",
          "sys.path.insert(0, '" \o PythonWriter_dir_path \o "')",
          "from robodk_postprocessors." \o self.real_robot_post
            \o " import RobotPost\n\n",
          "def run_post():",
          "\trobot = RobotPost('" \o self.real_robot_post \o "', '"
            \o PyStr(self.ROBOT_NAME) \o "', " \o PyStr(self.nAxes) \o ")">>
        \o [i \in 1..Len(extra_cfg) |->
              "\trobot." \o extra_cfg[i].k \o " = " \o my_repr(extra_cfg[i].v)]
  IN  [self EXCEPT !.top_lines = top_lines]

\* function_details(f).wrapper: the statement is added, then f runs (every f
\* of the class is 'pass').
PythonWriter_wrapper(self, f_name, arguments) ==
  LET all_sargs == JoinComma([i \in 1..Len(arguments) |->
                                arguments[i].kw \o "=" \o my_repr(arguments[i].arg)])
      outstr == "\t" \o "robot." \o f_name \o "(" \o all_sargs \o ")"
  IN  Ok(PythonWriter_addline(self, outstr))

\* Path(folder).mkdir(exist_ok=True): no parents are created.
PythonWriter_ProgSave(self, env, folder, progname, ask_user, show_result) ==
  LET f == PyStr(folder)
      outfile == f \o "/" \o PyStr(progname) \o "." \o PythonWriter_PROG_EXT
      env1 == [env EXCEPT !.dirs = @ \cup {f}]
      self1 == PythonWriter_add_python_header(
                 [self EXCEPT !.PROG_FILES = VList(<<VStr(outfile)>>)])
      text == JoinLines(self1.top_lines) \o JoinLines(self1.PROG)
                \o "\trobot.ProgSave('" \o f \o "', '" \o PyStr(progname) \o "')\n"
                \o "if __name__== \"__main__\":\n"
                \o "\trun_post()"
  IN  IF f \notin env.dirs /\ Dirname(f) \notin env.dirs
      THEN RaiseEnv(self, env, "FileNotFoundError")
      ELSE OkEnv([self1 EXCEPT !.PROG = <<>>, !.top_lines = <<>>],
                 WriteFile(env1, outfile, text))

\* ------------------------------------------------------------ dispatch
WithEnv(r, env) == [self |-> r.self, env |-> env, exc |-> r.exc]

BasePost_Invoke(self, env, c, dlg) ==
  LET P(p) == Param("BasePost", c, p)
  IN  CASE c.m = "ProgStart" -> WithEnv(BasePost_ProgStart(self, P("progname")), env)
        [] c.m = "ProgFinish" -> WithEnv(BasePost_ProgFinish(self, P("progname")), env)
        [] c.m = "ProgSave" ->
             BasePost_ProgSave(self, env, P("folder"), P("progname"), P("ask_user"),
                               P("show_result"), dlg)
        [] c.m = "ProgSendRobot" ->
             BasePost_ProgSendRobot(self, env, P("robot_ip"), P("remote_path"),
                                    P("ftp_user"), P("ftp_pass"))
        [] c.m = "MoveJ" ->
             WithEnv(BasePost_MoveJ(self, P("pose"), P("joints"), P("conf_RLF")), env)
        [] c.m = "MoveL" ->
             WithEnv(BasePost_MoveL(self, P("pose"), P("joints"), P("conf_RLF")), env)
        [] c.m = "MoveC" ->
             WithEnv(BasePost_MoveC(self, P("pose1"), P("joints1"), P("pose2"),
                                    P("joints2"), P("conf_RLF_1"), P("conf_RLF_2")), env)
        [] c.m = "setFrame" ->
             WithEnv(BasePost_setFrame(self, P("pose"), P("frame_id"), P("frame_name")),
                     env)
        [] c.m = "setTool" ->
             WithEnv(BasePost_setTool(self, P("pose"), P("tool_id"), P("tool_name")), env)
        [] c.m = "Pause" -> WithEnv(BasePost_Pause(self, P("time_ms")), env)
        [] c.m = "setSpeed" -> WithEnv(BasePost_setSpeed(self, P("speed_mms")), env)
        [] c.m = "setAcceleration" ->
             WithEnv(BasePost_setAcceleration(self, P("accel_mmss")), env)
        [] c.m = "setSpeedJoints" ->
             WithEnv(BasePost_setSpeedJoints(self, P("speed_degs")), env)
        [] c.m = "setAccelerationJoints" ->
             WithEnv(BasePost_setAccelerationJoints(self, P("accel_degss")), env)
        [] c.m = "setZoneData" -> WithEnv(BasePost_setZoneData(self, P("zone_mm")), env)
        [] c.m = "setDO" -> WithEnv(BasePost_setDO(self, P("io_var"), P("io_value")), env)
        [] c.m = "waitDI" ->
             WithEnv(BasePost_waitDI(self, P("io_var"), P("io_value"), P("timeout_ms")),
                     env)
        [] c.m = "RunCode" ->
             WithEnv(BasePost_RunCode(self, P("code"), P("is_function_call")), env)
        [] c.m = "RunMessage" ->
             WithEnv(BasePost_RunMessage(self, P("message"), P("iscomment")), env)

Precise_Invoke(self, env, c, dlg) ==
  LET P(p) == Param("Precise", c, p)
  IN  CASE c.m = "ProgStart" -> WithEnv(Precise_ProgStart(self, P("progname")), env)
        [] c.m = "ProgFinish" -> WithEnv(Precise_ProgFinish(self, P("progname")), env)
        [] c.m = "ProgSave" ->
             Precise_ProgSave(self, env, P("folder"), P("progname"), P("ask_user"),
                              P("show_result"), dlg)
        [] c.m = "ProgSendRobot" ->
             Precise_ProgSendRobot(self, env, P("robot_ip"), P("remote_path"),
                                   P("ftp_user"), P("ftp_pass"))
        [] c.m = "MoveJ" ->
             WithEnv(Precise_MoveJ(self, P("pose"), P("joints"), P("conf_RLF")), env)
        [] c.m = "MoveL" ->
             WithEnv(Precise_MoveL(self, P("pose"), P("joints"), P("conf_RLF")), env)
        [] c.m = "MoveC" ->
             WithEnv(Precise_MoveC(self, P("pose1"), P("joints1"), P("pose2"),
                                   P("joints2"), P("conf_RLF_1"), P("conf_RLF_2")), env)
        [] c.m = "setFrame" ->
             WithEnv(Precise_setFrame(self, P("pose"), P("frame_id"), P("frame_name")),
                     env)
        [] c.m = "setTool" ->
             WithEnv(Precise_setTool(self, P("pose"), P("tool_id"), P("tool_name")), env)
        [] c.m = "Pause" -> WithEnv(Precise_Pause(self, P("time_ms")), env)
        [] c.m = "setSpeed" -> WithEnv(Precise_setSpeed(self, P("speed_mms")), env)
        [] c.m = "setAcceleration" ->
             WithEnv(Precise_setAcceleration(self, P("accel_mmss")), env)
        [] c.m = "setSpeedJoints" ->
             WithEnv(Precise_setSpeedJoints(self, P("speed_degs")), env)
        [] c.m = "setAccelerationJoints" ->
             WithEnv(Precise_setAccelerationJoints(self, P("accel_degss")), env)
        [] c.m = "setZoneData" -> WithEnv(Precise_setZoneData(self, P("zone_mm")), env)
        [] c.m = "setDO" -> WithEnv(Precise_setDO(self, P("io_var"), P("io_value")), env)
        [] c.m = "waitDI" ->
             WithEnv(Precise_waitDI(self, P("io_var"), P("io_value"), P("timeout_ms")),
                     env)
        [] c.m = "RunCode" ->
             WithEnv(Precise_RunCode(self, P("code"), P("is_function_call")), env)
        [] c.m = "RunMessage" ->
             WithEnv(Precise_RunMessage(self, P("message"), P("iscomment")), env)

\* Every instruction method of the recorder is the decorated 'pass'; ProgSave
\* is its own; ProgSendRobot is inherited.
PythonWriter_Invoke(self, env, c, dlg) ==
  LET P(p) == Param("PythonWriter", c, p)
  IN  CASE c.m = "ProgSave" ->
             PythonWriter_ProgSave(self, env, P("folder"), P("progname"),
                                   P("ask_user"), P("show_result"))
        [] c.m = "ProgSendRobot" ->
             BasePost_ProgSendRobot(self, env, P("robot_ip"), P("remote_path"),
                                    P("ftp_user"), P("ftp_pass"))
        [] OTHER -> WithEnv(PythonWriter_wrapper(self, c.m, BoundArguments(c)), env)

Invoke(k, self, env, c, dlg) ==
  CASE k = "BasePost" -> BasePost_Invoke(self, env, c, dlg)
    [] k = "Precise" -> Precise_Invoke(self, env, c, dlg)
    [] k = "PythonWriter" -> PythonWriter_Invoke(self, env, c, dlg)

\* ------------------------------------------------------------ the arguments explored
P1 == VMat(<<200000000, 200000000, 500000000, 180000000, 0, 180000000>>)
J6 == VList(<<VFloat(-46184190), VFloat(-6775180), VFloat(-20549250),
              VFloat(71386740), VFloat(49587270), VFloat(-302547520)>>)
\* A joint vector with more than five decimals.
J6f == VList(<<VFloat(1123457), VFloat(2000000), VFloat(3000000), VFloat(4000000),
               VFloat(5000000), VFloat(6000000)>>)
J7 == VList([i \in 1..7 |-> VFloat(i * 1000000)])
J13 == VList([i \in 1..13 |-> VFloat(i * 1000000)])
Conf0 == VList(<<VInt(0), VInt(0), VInt(0)>>)
LongMessage == "Program generated by RoboDK using a custom post processor"

ProgNameArgs == {[progname |-> VStr("P")]}
MoveJArgs ==
  {[pose |-> p, joints |-> j] : p \in {VNone, P1}, j \in {J6, J6f}}
    \cup {[pose |-> VNone, joints |-> j] : j \in {J7, J13}}
    \cup {[pose |-> VNone, joints |-> J6, conf_RLF |-> Conf0]}
MoveLArgs ==
  {[pose |-> P1, joints |-> J6], [pose |-> VNone, joints |-> J6],
   [pose |-> P1, joints |-> J7], [pose |-> P1, joints |-> J13]}
MoveCArgs ==
  {[pose1 |-> p, joints1 |-> J6, pose2 |-> p, joints2 |-> J6] : p \in {VNone, P1}}
    \cup {[pose1 |-> P1, joints1 |-> J6, pose2 |-> P1, joints2 |-> J7]}
setFrameArgs ==
  {[pose |-> P1], [pose |-> P1, frame_id |-> VInt(5), frame_name |-> VStr("Frame 5")]}
setToolArgs == {[pose |-> P1]}
setSpeedArgs == {[speed_mms |-> VInt(30)]}
setAccelerationArgs == {[accel_mmss |-> VInt(100)]}
setSpeedJointsArgs == {[speed_degs |-> VInt(50)]}
setAccelerationJointsArgs == {[accel_degss |-> VInt(200)]}
setZoneDataArgs == {[zone_mm |-> VFloat(1500000)]}
PauseArgs == {[time_ms |-> VInt(t)] : t \in {-100, -1, 0, 1000}}
setDOArgs ==
  {[io_var |-> VInt(3), io_value |-> v] :
     v \in {VInt(1), VInt(0), VInt(-1), VFloat(500000), VBool(TRUE), VBool(FALSE),
            VStr("ON")}}
    \cup {[io_var |-> VStr("MYVAR"), io_value |-> v] : v \in {VStr("ON"), VInt(1)}}
waitDIArgs ==
  {[io_var |-> VInt(3), io_value |-> VInt(1)]}
    \cup {[io_var |-> VInt(3), io_value |-> VInt(1), timeout_ms |-> VInt(t)] :
            t \in {-1, 0, 500}}
    \cup {[io_var |-> VStr("MYVAR"), io_value |-> VStr("ON"), timeout_ms |-> VInt(0)],
          [io_var |-> VInt(3), io_value |-> VInt(0), timeout_ms |-> VFloat(-40000)]}
RunCodeArgs ==
  {[code |-> VStr("TCP On"), is_function_call |-> VBool(TRUE)],
   [code |-> VStr("TCP_Off()"), is_function_call |-> VBool(TRUE)],
   [code |-> VStr("x = 1")]}
RunMessageArgs ==
  {[message |-> VStr("hi"), iscomment |-> VBool(TRUE)], [message |-> VStr("hi")],
   [message |-> VStr(LongMessage), iscomment |-> VBool(TRUE)]}
\* "out" exists; "new" does not, and its parent does; the parent of "no/sub" does
\* not exist either.
\* "o't" holds a quote and does not exist; the name "P\\t" holds a backslash.
ProgSaveArgs ==
  {[folder |-> VStr(f), progname |-> VStr("P")] : f \in {"out", "new", "no/sub"}}
    \cup {[folder |-> VStr("o't"), progname |-> VStr("P")],
          [folder |-> VStr("out"), progname |-> VStr("P\\t")]}
    \cup {[folder |-> VStr("out"), progname |-> VStr("P"), ask_user |-> VBool(TRUE)],
          [folder |-> VStr("out"), progname |-> VStr("P"), ask_user |-> VBool(FALSE),
           show_result |-> VBool(TRUE)],
          [folder |-> VStr("out"), progname |-> VStr("P"), ask_user |-> VBool(FALSE),
           show_result |-> VStr("notepad")],
          [folder |-> VStr("out"), progname |-> VStr("P"), ask_user |-> VBool(FALSE),
           show_result |-> VBool(FALSE)]}
\* What the save dialog answers: cancelled, or a file the user chose.
DialogAnswers == {VNone, VStr("out/user.txt")}
ProgSendRobotArgs ==
  {[robot_ip |-> VStr("10.0.0.2"), remote_path |-> VStr("/"), ftp_user |-> VStr("u"),
    ftp_pass |-> VStr("p")]}

\* The configs a recorder is built from.
RecorderConfigs ==
  {<<[k |-> "robot_post", v |-> VStr("PythonWriter")],
     [k |-> "real_robot_post", v |-> VStr("Precise")],
     [k |-> "robot_name", v |-> VStr("R")],
     [k |-> "robot_axes", v |-> VInt(6)],
     [k |-> "speed_scale", v |-> VFloat(500000)]>>}

Kinds == {"BasePost", "Precise", "PythonWriter"}
RealKinds == {"BasePost", "Precise"}

\* The arguments of a constructor call, as a config: the three positional
\* parameters and the keyword arguments that go to **kwargs.
BaseArgs(k) ==
  <<[k |-> "robot_post", v |-> VStr(k)], [k |-> "robot_name", v |-> VStr("R")],
    [k |-> "robot_axes", v |-> VInt(6)]>>
RecorderKwargs ==
  <<[k |-> "real_robot_post", v |-> VStr("Precise")],
    [k |-> "speed_scale", v |-> VFloat(500000)]>>

\* The ways an instance of class k is built: through its constructor or, for
\* the recorder, through from_config.
Builds(k) ==
  {[via |-> "init", cfg |-> BaseArgs(k)]}
    \cup (IF k = "PythonWriter"
          THEN {[via |-> "init", cfg |-> BaseArgs(k) \o RecorderKwargs]}
                 \cup {[via |-> "from_config", cfg |-> cfg] : cfg \in RecorderConfigs}
          ELSE {})

\* The instance a build makes. A constructor takes robotpost, robotname and
\* robot_axes; what else it is given lands in **kwargs.
Construct(k, b) ==
  IF b.via = "from_config" THEN PythonWriter_from_config(b.cfg)
  ELSE CASE k = "BasePost" ->
              BasePost_init(ConfigGet(b.cfg, "robot_post", VNone),
                            ConfigGet(b.cfg, "robot_name", VNone),
                            ConfigGet(b.cfg, "robot_axes", VInt(6)))
         [] k = "Precise" ->
              Precise_init(ConfigGet(b.cfg, "robot_post", VNone),
                           ConfigGet(b.cfg, "robot_name", VNone),
                           ConfigGet(b.cfg, "robot_axes", VInt(6)))
         [] k = "PythonWriter" ->
              PythonWriter_init(ConfigGet(b.cfg, "robot_post", VNone),
                                ConfigGet(b.cfg, "robot_name", VNone),
                                ConfigGet(b.cfg, "robot_axes", VInt(6)))

\* The instances a session starts with.
NewInstances(k) == {Construct(k, b) : b \in Builds(k)}

NewEnv == [dirs |-> {"", "out"}, files |-> <<>>, opened |-> <<>>, mbox |-> <<>>,
           uploads |-> <<>>, dialogs |-> <<>>]

\* The lines of the buffer as one text: PROG is a list of lines in the sample
\* post and the recorder, and the text itself in Precise.
ProgText(k, self) == IF k = "Precise" THEN self.PROG ELSE JoinLines(self.PROG)

\* ------------------------------------------------------------ instances and their class
\* The fields __init__ binds on the instance. Every other field an instance
\* reads is the attribute declared in the body of its class, one object for
\* all instances, until a method assigns the field on the instance.
InitBound_no_buffer(k) ==
  CASE k = "BasePost" -> {"ROBOT_POST", "ROBOT_NAME", "LOG", "nAxes"}
    [] k = "Precise" -> {"ROBOT_NAME", "LOG", "nAxes"}
    [] k = "PythonWriter" ->
         {"ROBOT_POST", "ROBOT_NAME", "LOG", "nAxes",
          "top_lines", "real_robot_post", "config"}
InitBound(k) ==
  CASE k = "BasePost" -> {"ROBOT_POST", "ROBOT_NAME", "PROG", "LOG", "nAxes"}
    [] k = "Precise" -> {"ROBOT_NAME", "PROG", "LOG", "nAxes"}
    [] k = "PythonWriter" ->
         {"ROBOT_POST", "ROBOT_NAME", "PROG", "LOG", "nAxes",
          "top_lines", "real_robot_post", "config"}

\* The attributes declared in the body of class k, with their values.
ClassAttrs(k) ==
  CASE k = "BasePost" ->
         [ROBOT_POST |-> VStr(""), ROBOT_NAME |-> VStr(""), PROG_FILES |-> VList(<<>>),
          PROG |-> <<>>, LOG |-> "", nAxes |-> VInt(6)]
    [] k = "Precise" ->
         [ROBOT_NAME |-> VStr(""), PROG_FILES |-> VList(<<>>), nPROGS |-> 0,
          PROG |-> "", TAB |-> "", LOG |-> "", nAxes |-> VInt(6),
          FRAME |-> Precise_eye4, TOOL |-> Precise_eye4]
    [] k = "PythonWriter" ->
         [ROBOT_POST |-> VStr(""), ROBOT_NAME |-> VStr(""), PROG_FILES |-> VList(<<>>),
          PROG |-> <<>>, LOG |-> "", nAxes |-> VInt(6)]

\* The fields method m changes through the object they hold
\* (self.PROG.append(newline)) instead of assigning them (self.X = ...). The
\* recorder's ProgSave assigns a new list.
MutatedInPlace(k, m) ==
  IF k \in {"BasePost", "PythonWriter"} /\ ~(k = "PythonWriter" /\ m = "ProgSave")
  THEN {"PROG"} ELSE {}

\* The fields a call has changed.
Changed(old, new) == {f \in DOMAIN old : new[f] # old[f]}

\* The class attributes after a call: a field changed in place that the
\* instance has not bound is the class's object.
ClassAfter(k, m, cls, bnd, old, new) ==
  [f \in DOMAIN cls |->
     IF f \in (Changed(old, new) \cap MutatedInPlace(k, m)) \ bnd THEN new[f]
     ELSE cls[f]]

\* The fields bound on the instance after a call: an assignment binds.
BoundAfter(k, m, bnd, old, new) == bnd \cup (Changed(old, new) \ MutatedInPlace(k, m))

\* What instance o reads: its own fields, and the class's for the others.
View(o, cls) ==
  [f \in DOMAIN o \cup DOMAIN cls |-> IF f \in DOMAIN o THEN o[f] ELSE cls[f]]

\* The instance's own fields right after construction.
OwnFields(k, b) == [f \in InitBound(k) |-> Construct(k, b)[f]]

\* ------------------------------------------------------------ the state machine
VARIABLES
  kind,     \* the class of the instance
  built,    \* history: how the instance was built, and from what
  self,     \* the instance, as its methods read it
  bound,    \* the fields bound on the instance itself
  shared,   \* the attributes of the instance's class
  peer,     \* the own fields of a second instance of the class, built the same way
  env,      \* the environment (directories, files written, viewers, boxes, uploads)
  calls,    \* history: the calls made on the instance, with their outcome
  last,     \* history: the last call, its outcome, and the state it started from
  cost,     \* the cost of the calls made
  probe,    \* a value handed to my_repr
  literal,  \* the text my_repr made of it ("": not rendered yet)
  parsed    \* what the literal parses back to

vars == <<kind, built, self, bound, shared, peer, env, calls, last, cost, probe, literal, parsed>>

NoCall == [m |-> "none", a |-> <<>>]
NotParsed == [t |-> "unparsed"]

\* What a call of method m counts for against MaxCost.
CallCost(m) == IF m \in {"ProgStart", "ProgFinish"} THEN 1 ELSE 2

Init ==
  /\ kind \in Kinds
  /\ built \in Builds(kind)
  /\ self = Construct(kind, built)
  /\ bound = InitBound(kind)
  /\ shared = ClassAttrs(kind)
  /\ peer = OwnFields(kind, built)
  /\ env = NewEnv
  /\ calls = <<>>
  /\ last = [c |-> NoCall, exc |-> "none", self0 |-> self, env0 |-> env]
  /\ cost = 0
  /\ probe = VNone
  /\ literal = ""
  /\ parsed = NotParsed

\* One call of method c.m with the arguments c.a; dlg is the save dialog's
\* answer, should the call ask.
CanCall(m) == cost + CallCost(m) <= MaxCost

Commit(c, r) ==
  /\ self' = r.self
  /\ bound' = BoundAfter(kind, c.m, bound, self, r.self)
  /\ shared' = ClassAfter(kind, c.m, shared, bound, self, r.self)
  /\ peer' = peer
  /\ env' = r.env
  /\ calls' = Append(calls, [c |-> c, exc |-> r.exc])
  /\ last' = [c |-> c, exc |-> r.exc, self0 |-> self, env0 |-> env]
  /\ cost' = cost + CallCost(c.m)
  /\ UNCHANGED <<kind, built, probe, literal, parsed>>

Step(c, dlg) == Commit(c, Invoke(kind, self, env, c, dlg))

ProgStart ==
  \E a \in ProgNameArgs :
    /\ CanCall("ProgStart")
    /\ Step([m |-> "ProgStart", a |-> a], VNone)

ProgFinish ==
  \E a \in ProgNameArgs :
    /\ CanCall("ProgFinish")
    /\ Step([m |-> "ProgFinish", a |-> a], VNone)

ProgSave ==
  \E a \in ProgSaveArgs, dlg \in DialogAnswers :
    /\ CanCall("ProgSave")
    /\ Step([m |-> "ProgSave", a |-> a], dlg)

ProgSendRobot ==
  \E a \in ProgSendRobotArgs :
    /\ CanCall("ProgSendRobot")
    /\ Step([m |-> "ProgSendRobot", a |-> a], VNone)

MoveJ ==
  \E a \in MoveJArgs :
    /\ CanCall("MoveJ")
    /\ Step([m |-> "MoveJ", a |-> a], VNone)

MoveL ==
  \E a \in MoveLArgs :
    /\ CanCall("MoveL")
    /\ Step([m |-> "MoveL", a |-> a], VNone)

MoveC ==
  \E a \in MoveCArgs :
    /\ CanCall("MoveC")
    /\ Step([m |-> "MoveC", a |-> a], VNone)

setFrame ==
  \E a \in setFrameArgs :
    /\ CanCall("setFrame")
    /\ Step([m |-> "setFrame", a |-> a], VNone)

setTool ==
  \E a \in setToolArgs :
    /\ CanCall("setTool")
    /\ Step([m |-> "setTool", a |-> a], VNone)

Pause ==
  \E a \in PauseArgs :
    /\ CanCall("Pause")
    /\ Step([m |-> "Pause", a |-> a], VNone)

setSpeed ==
  \E a \in setSpeedArgs :
    /\ CanCall("setSpeed")
    /\ Step([m |-> "setSpeed", a |-> a], VNone)

setAcceleration ==
  \E a \in setAccelerationArgs :
    /\ CanCall("setAcceleration")
    /\ Step([m |-> "setAcceleration", a |-> a], VNone)

setSpeedJoints ==
  \E a \in setSpeedJointsArgs :
    /\ CanCall("setSpeedJoints")
    /\ Step([m |-> "setSpeedJoints", a |-> a], VNone)

setAccelerationJoints ==
  \E a \in setAccelerationJointsArgs :
    /\ CanCall("setAccelerationJoints")
    /\ Step([m |-> "setAccelerationJoints", a |-> a], VNone)

setZoneData ==
  \E a \in setZoneDataArgs :
    /\ CanCall("setZoneData")
    /\ Step([m |-> "setZoneData", a |-> a], VNone)

setDO ==
  \E a \in setDOArgs :
    /\ CanCall("setDO")
    /\ Step([m |-> "setDO", a |-> a], VNone)

waitDI ==
  \E a \in waitDIArgs :
    /\ CanCall("waitDI")
    /\ Step([m |-> "waitDI", a |-> a], VNone)

RunCode ==
  \E a \in RunCodeArgs :
    /\ CanCall("RunCode")
    /\ Step([m |-> "RunCode", a |-> a], VNone)

RunMessage ==
  \E a \in RunMessageArgs :
    /\ CanCall("RunMessage")
    /\ Step([m |-> "RunMessage", a |-> a], VNone)

Next ==
  \/ ProgStart \/ ProgFinish \/ ProgSave \/ ProgSendRobot
  \/ MoveJ \/ MoveL \/ MoveC \/ setFrame \/ setTool \/ Pause
  \/ setSpeed \/ setAcceleration \/ setSpeedJoints \/ setAccelerationJoints
  \/ setZoneData \/ setDO \/ waitDI \/ RunCode \/ RunMessage

Spec == Init /\ [][Next]_vars

\* ------------------------------------------------------------ my_repr on its own
\* The values handed to my_repr: the types the recorder intercepts.
RECURSIVE Nest(_, _)
Nest(x, d) == IF d = 0 THEN x ELSE VList(<<Nest(x, d - 1)>>)

DictOf(n) == VDict([i \in 1..n |-> [k |-> VStr(ToString(i)), v |-> VInt(10 * i)]])

ProbeStrings ==
  {VStr(Left(LongMessage, n)) : n \in 0..(maxstring + StrSlack)}
    \cup {VStr(LongMessage), VStr("it's"), VStr("say \"hi\""), VStr("a\\b")}
ProbeNumbers ==
  {VInt(0), VInt(3), VInt(-1), VFloat(1000000), VFloat(500000), VFloat(-46184190),
   VFloat(1123457), VFloat(1), VFloat(100000000)}
ProbeContainers ==
  {Nest(VInt(1), d) : d \in 1..MaxDepth}
    \cup {DictOf(n) : n \in 0..MaxDictLen}
    \cup {VList(<<>>), J6, J6f, J13, Conf0, VList(<<VStr("a"), VNone, VBool(TRUE)>>),
          VDict(<<[k |-> VStr("joints"), v |-> J6]>>)}
ProbeValues ==
  {VNone, VBool(TRUE), VBool(FALSE), P1} \cup ProbeStrings \cup ProbeNumbers
    \cup ProbeContainers

InitRepr ==
  /\ kind = "PythonWriter"
  /\ built = [via |-> "init", cfg |-> BaseArgs(kind)]
  /\ self = PythonWriter_init(VStr("PythonWriter"), VStr("R"), VInt(6))
  /\ bound = InitBound(kind)
  /\ shared = ClassAttrs(kind)
  /\ peer = OwnFields(kind, built)
  /\ env = NewEnv
  /\ calls = <<>>
  /\ last = [c |-> NoCall, exc |-> "none", self0 |-> self, env0 |-> env]
  /\ cost = 0
  /\ probe \in ProbeValues
  /\ literal = ""
  /\ parsed = NotParsed

\* my_repr(arg), as the wrapper and the header call it.
Render ==
  /\ literal = ""
  /\ literal' = my_repr(probe)
  /\ UNCHANGED <<kind, built, self, bound, shared, peer, env, calls, last, cost, probe, parsed>>

\* The interpreter reads the literal when the script runs.
Parse ==
  /\ literal # ""
  /\ parsed = NotParsed
  /\ parsed' = PyEval(literal)
  /\ UNCHANGED <<kind, built, self, bound, shared, peer, env, calls, last, cost, probe, literal>>

NextRepr == Render \/ Parse

SpecRepr == InitRepr /\ [][NextRepr]_vars

\* ------------------------------------------------------------ sessions that save more than once
\* A dialect takes up to MaxCalls calls that emit, log or save; a save may
\* show its dialog, and the user may cancel it.
SaveProbes ==
  {[folder |-> VStr("out"), progname |-> VStr("P")],
   [folder |-> VStr("new"), progname |-> VStr("P")],
   [folder |-> VStr("out"), progname |-> VStr("P"), ask_user |-> VBool(TRUE)],
   [folder |-> VStr("out"), progname |-> VStr("P"), ask_user |-> VBool(FALSE),
    show_result |-> VBool(TRUE)]}

InitSave ==
  /\ kind \in RealKinds
  /\ built \in Builds(kind)
  /\ self = Construct(kind, built)
  /\ bound = InitBound(kind)
  /\ shared = ClassAttrs(kind)
  /\ peer = OwnFields(kind, built)
  /\ env = NewEnv
  /\ calls = <<>>
  /\ last = [c |-> NoCall, exc |-> "none", self0 |-> self, env0 |-> env]
  /\ cost = 0
  /\ probe = VNone
  /\ literal = ""
  /\ parsed = NotParsed

Emit ==
  \E a \in ProgNameArgs :
    /\ Len(calls) < MaxCalls
    /\ Step([m |-> "ProgStart", a |-> a], VNone)

Log ==
  \E a \in setSpeedJointsArgs :
    /\ Len(calls) < MaxCalls
    /\ Step([m |-> "setSpeedJoints", a |-> a], VNone)

Save ==
  \E a \in SaveProbes, dlg \in DialogAnswers :
    /\ Len(calls) < MaxCalls
    /\ Step([m |-> "ProgSave", a |-> a], dlg)

NextSave == Emit \/ Log \/ Save

SpecSave == InitSave /\ [][NextSave]_vars

\* ------------------------------------------------------------ running a generated script
\* What the Python interpreter does with the file the recorder wrote: the
\* statements of run_post() that call a method of robot, in order.
IndexOf(s, c, i) ==
  IF \E j \in i..Len(s) : Ch(s, j) = c
  THEN CHOOSE j \in i..Len(s) : Ch(s, j) = c /\ \A h \in i..(j - 1) : Ch(s, h) # c
  ELSE 0

RECURSIVE SplitLines(_)
SplitLines(text) ==
  IF Len(text) = 0 THEN <<>>
  ELSE LET n == IndexOf(text, "\n", 1)
       IN  IF n = 0 THEN <<text>>
           ELSE <<SubSeq(text, 1, n - 1)>> \o SplitLines(SubSeq(text, n + 1, Len(text)))

IdentText == "abcdefghijklmnopqrstuvwxyzABCDEFGHIJKLMNOPQRSTUVWXYZ_0123456789"
IdentChars == {Ch(IdentText, i) : i \in 1..Len(IdentText)}

\* The index after the identifier that starts at i.
RECURSIVE ScanIdent(_, _)
ScanIdent(s, i) == IF Ch(s, i) \in IdentChars THEN ScanIdent(s, i + 1) ELSE i

CallPrefix == "\trobot."

\* Whether the line is a statement robot.<method>(...).
IsCallLine(line) ==
  /\ StartsWith(line, 1, CallPrefix)
  /\ Ch(line, ScanIdent(line, Len(CallPrefix) + 1)) = "("

\* The arguments of a call of method m from index i on: keyword arguments
\* kw=<literal> and positional ones, which bind in signature order.
RECURSIVE ParseArgs(_, _, _, _)
ParseArgs(s, i, m, acc) ==
  LET j == ScanIdent(s, i)
      isKw == j > i /\ Ch(s, j) = "="
      n == Cardinality(DOMAIN acc) + 1
      kw == IF isKw THEN SubSeq(s, i, j - 1)
            ELSE IF n <= Len(Signature(m)) THEN Signature(m)[n] ELSE ""
      r == ParseValue(s, IF isKw THEN j + 1 ELSE i)
      a == acc @@ (kw :> r.val)
  IN  IF Ch(s, i) = ")" /\ i = Len(s) THEN [exc |-> "none", a |-> acc]
      ELSE IF r.val.t = "SyntaxError" THEN [exc |-> "SyntaxError"]
      ELSE IF kw = "" \/ kw \in DOMAIN acc THEN [exc |-> "TypeError"]
      ELSE IF Ch(s, r.next) = ")" /\ r.next = Len(s) THEN [exc |-> "none", a |-> a]
      ELSE IF StartsWith(s, r.next, ", ") THEN ParseArgs(s, r.next + 2, m, a)
      ELSE [exc |-> "SyntaxError"]

NoArgs == [p \in {} |-> VNone]

ParseCall(line) ==
  LET j == ScanIdent(line, Len(CallPrefix) + 1)
      m == SubSeq(line, Len(CallPrefix) + 1, j - 1)
      r == ParseArgs(line, j + 1, m, NoArgs)
  IN  IF r.exc # "none" THEN [exc |-> r.exc]
      ELSE [exc |-> "none", c |-> [m |-> m, a |-> r.a]]

\* The calls a script makes on robot; a statement that does not parse makes
\* the whole script a SyntaxError, and none of it runs.
ScriptCalls(text) ==
  LET ls == SelectSeq(SplitLines(text), IsCallLine)
      cs == [i \in 1..Len(ls) |-> ParseCall(ls[i])]
  IN  IF \E i \in 1..Len(cs) : cs[i].exc # "none"
      THEN [exc |-> cs[CHOOSE i \in 1..Len(cs) : cs[i].exc # "none"].exc, calls |-> <<>>]
      ELSE [exc |-> "none", calls |-> [i \in 1..Len(cs) |-> cs[i].c]]

\* The calls cs made in order on an instance of class k, up to the first that
\* raises.
RECURSIVE RunCalls(_, _, _, _, _)
RunCalls(k, obj, e, cs, dlg) ==
  IF Len(cs) = 0 THEN OkEnv(obj, e)
  ELSE LET r == Invoke(k, obj, e, Head(cs), dlg)
       IN  IF r.exc # "none" THEN r ELSE RunCalls(k, r.self, r.env, Tail(cs), dlg)

\* RobotPost(robotpost, robotname, robot_axes) of class k.
New(k, robotpost, robotname, robot_axes) ==
  CASE k = "BasePost" -> BasePost_init(robotpost, robotname, robot_axes)
    [] k = "Precise" -> Precise_init(robotpost, robotname, robot_axes)
    [] k = "PythonWriter" -> PythonWriter_init(robotpost, robotname, robot_axes)

\* A call as the method of class k receives it: every parameter with the
\* value passed or its default.
Received(k, c) ==
  [m |-> c.m, a |-> [p \in {Signature(c.m)[i] : i \in 1..Len(Signature(c.m))} |->
                       Param(k, c, p)]]

\* ------------------------------------------------------------ properties
IsPrefix(a, b) == Len(a) <= Len(b) /\ SubSeq(b, 1, Len(a)) = a
HasSub(s, w) == \E i \in 1..(Len(s) - Len(w) + 1) : SubSeq(s, i, i + Len(w) - 1) = w
NlCount(s) == Cardinality({i \in 1..Len(s) : Ch(s, i) = "\n"})

\* The buffer before and after the last call, and the text the call added.
Before == ProgText(kind, last.self0)
After == ProgText(kind, self)
Emitted == SubSeq(After, Len(Before) + 1, Len(After))
\* The last call appended exactly the one line l.
EmittedLine(l) == IsPrefix(Before, After) /\ Emitted = l \o "\n"
Arg(p) == Param(kind, last.c, p)
Setters ==
  {"setSpeed", "setAcceleration", "setSpeedJoints", "setAccelerationJoints",
   "setZoneData"}

\* A recorder configured for a real backend that took instruction calls only
\* and has just saved them.
RecordedSession ==
  /\ kind = "PythonWriter"
  /\ self.real_robot_post \in RealKinds
  /\ last.c.m = "ProgSave"
  /\ last.exc = "none"
  /\ \A i \in 1..(Len(calls) - 1) : calls[i].c.m \notin {"ProgSave", "ProgSendRobot"}

\* C1: replaying the script the recorder saved against the real backend it
\* names makes the same calls with the same argument values as the original
\* sequence, and leaves the backend and what it wrote as the original sequence
\* does.
C1_ReplayEquivalence ==
  RecordedSession =>
    \A dlg \in DialogAnswers :
      LET k == self.real_robot_post
          script == env.files[Len(env.files)].text
          replayed == ScriptCalls(script)
          original == [i \in 1..Len(calls) |-> calls[i].c]
          fresh == New(k, VStr(self.real_robot_post), self.ROBOT_NAME, self.nAxes)
      IN  /\ replayed.exc = "none"
          /\ [i \in 1..Len(replayed.calls) |-> Received(k, replayed.calls[i])]
               = [i \in 1..Len(original) |-> Received(k, original[i])]
          /\ RunCalls(k, fresh, NewEnv, replayed.calls, dlg)
               = RunCalls(k, fresh, NewEnv, original, dlg)

\* C2: the literal my_repr makes of a value parses back to a value equal to it.
C2_RoundTrip == parsed # NotParsed => parsed = probe

\* C3: the literal of a list or dict holds no '...' placeholder, whatever the
\* number of elements and the nesting depth.
C3_NoElision ==
  (literal # "" /\ probe \in ProbeContainers) => ~HasSub(literal, fillvalue)

\* C4: on every backend, a ProgSave that writes its file leaves the program
\* buffer empty.
C4_SaveEmptiesBuffer ==
  (/\ last.c.m = "ProgSave"
   /\ last.exc = "none"
   /\ Len(env.files) > Len(last.env0.files)) => After = ""

\* C5: a call other than ProgSave leaves the lines already in the buffer where
\* they are and adds its own after them, so lines are ordered by call.
C5_AppendOnly ==
  last.c.m \notin {"none", "ProgSave"} => IsPrefix(Before, After)

\* Two instruction calls in a row have each added text to a buffer that was
\* not empty.
C5_Witness ==
  /\ Len(calls) >= 3
  /\ \A i \in 1..Len(calls) : calls[i].c.m # "ProgSave" /\ calls[i].exc = "none"
  /\ Before # ""
  /\ Len(After) > Len(Before)

\* The calls C6 names: within the types the methods document.
InContract(c) ==
  CASE c.m \in {"MoveJ", "MoveL"} ->
         /\ Param(kind, c, "pose") = VNone
         /\ Len(Param(kind, c, "joints").v) = self.nAxes.v
    [] c.m \in {"Pause", "setDO", "waitDI"} \cup Setters -> TRUE
    [] OTHER -> FALSE

\* C6: on the sample post and on Precise, MoveJ and MoveL with a null pose and
\* a valid joint vector, Pause, setDO, waitDI and the five setters return
\* normally.
C6_NoInstructionRaises ==
  (kind \in RealKinds /\ InContract(last.c)) => last.exc = "none"

\* C7: a setter call on a dialect backend adds a program line or exactly one
\* log entry, and the log is non-empty only after a setter call.
C7_SetterLineOrLog ==
  kind \in RealKinds =>
    /\ last.c.m \in Setters =>
         \/ IsPrefix(Before, After) /\ NlCount(After) > NlCount(Before)
         \/ /\ IsPrefix(last.self0.LOG, self.LOG)
            /\ NlCount(self.LOG) = NlCount(last.self0.LOG) + 1
    /\ self.LOG # "" => \E i \in 1..Len(calls) : calls[i].c.m \in Setters

\* The index of the first digit of s (0: none).
FirstDigit(s) ==
  IF \E i \in 1..Len(s) : Ch(s, i) \in Digits
  THEN CHOOSE i \in 1..Len(s) : Ch(s, i) \in Digits /\ \A h \in 1..(i - 1) : Ch(s, h) \notin Digits
  ELSE 0
\* The first number written in s.
NumberIn(s) == ParseNumber(s, FirstDigit(s)).val

\* C8: on every dialect backend Pause(ms) adds exactly one line, which
\* carries no duration when ms < 0 and the duration ms / 1000 when ms >= 0.
C8_Pause ==
  (kind \in RealKinds /\ last.c.m = "Pause") =>
    /\ last.exc = "none"
    /\ IsPrefix(Before, After)
    /\ NlCount(Emitted) = 1
    /\ Micro(Arg("time_ms")) < 0 => FirstDigit(Emitted) = 0
    /\ Micro(Arg("time_ms")) >= 0 =>
         /\ FirstDigit(Emitted) > 0
         /\ Micro(NumberIn(Emitted)) * 1000 = Micro(Arg("time_ms"))

\* The reference and the value as setDO and waitDI are to write them.
IoRef(io_var, name) ==
  IF io_var.t = "str" THEN io_var.v ELSE name \o "[" \o ToString(io_var.v) \o "]"
IoValue(io_value) ==
  IF io_value.t = "str" THEN io_value.v
  ELSE IF Micro(io_value) > 0 THEN "TRUE" ELSE "FALSE"

\* C9: setDO(io_var, io_value) adds exactly the line <var>=<value>: io_var
\* verbatim if a string and OUT[<index>] if a number; io_value verbatim if a
\* string, TRUE if a number or boolean above 0, FALSE otherwise.
C9_setDO ==
  (kind \in RealKinds /\ last.c.m = "setDO") =>
    /\ last.exc = "none"
    /\ EmittedLine(IoRef(Arg("io_var"), "OUT") \o "=" \o IoValue(Arg("io_value")))

\* Precise has written OUT[3]=FALSE for setDO(3, -1) after another line.
C9_Witness ==
  /\ kind = "Precise"
  /\ last.c = [m |-> "setDO", a |-> [io_var |-> VInt(3), io_value |-> VInt(-1)]]
  /\ Before # ""
  /\ Emitted = "OUT[3]=FALSE\n"

\* C10: waitDI(io_var, io_value, timeout_ms) adds exactly one wait line, with
\* the reference (IN[<index>] for a number) and the value written as setDO
\* writes them; the line carries no timeout if timeout_ms is absent or
\* negative, and the timeout if timeout_ms >= 0.
C10_waitDI ==
  (kind \in RealKinds /\ last.c.m = "waitDI") =>
    LET wait == "WAIT FOR " \o IoRef(Arg("io_var"), "IN") \o "=="
                  \o IoValue(Arg("io_value"))
        timed == wait \o " TIMEOUT="
    IN  /\ last.exc = "none"
        /\ IsPrefix(Before, After)
        /\ NlCount(Emitted) = 1
        /\ ("timeout_ms" \notin DOMAIN last.c.a \/ Micro(Arg("timeout_ms")) < 0)
             => Emitted = wait \o "\n"
        /\ ("timeout_ms" \in DOMAIN last.c.a /\ Micro(Arg("timeout_ms")) >= 0)
             => /\ IsPrefix(timed, Emitted)
                /\ Micro(ParseNumber(Emitted, Len(timed) + 1).val)
                     = Micro(Arg("timeout_ms"))

\* The sample post has written a wait with the timeout 0 after another line.
C10_Witness ==
  /\ kind = "BasePost"
  /\ last.c.m = "waitDI"
  /\ "timeout_ms" \in DOMAIN last.c.a
  /\ Arg("timeout_ms") = VInt(0)
  /\ Before # ""
  /\ Emitted = "WAIT FOR IN[3]==TRUE TIMEOUT=0.0\n"

\* s with every space replaced by '_'.
RECURSIVE NoSpaces(_)
NoSpaces(s) ==
  IF Len(s) = 0 THEN ""
  ELSE (IF SubSeq(s, 1, 1) = " " THEN "_" ELSE SubSeq(s, 1, 1))
         \o NoSpaces(SubSeq(s, 2, Len(s)))

\* C11: RunCode(code, is_function_call) adds exactly one line: code verbatim
\* when is_function_call is false; otherwise code with every space replaced
\* and '()' appended unless it ends in ')', a token without a space.
C11_RunCode ==
  (kind \in RealKinds /\ last.c.m = "RunCode") =>
    LET code == Arg("code").v
        token == NoSpaces(code) \o (IF Right(code, 1) = ")" THEN "" ELSE "()")
    IN  /\ last.exc = "none"
        /\ IF Truthy(Arg("is_function_call"))
           THEN EmittedLine(token) /\ ~HasSub(Emitted, " ")
           ELSE EmittedLine(code)

\* The paths of the files written so far.
WrittenPaths == {VStr(env.files[i].path) : i \in 1..Len(env.files)}

\* C12: ProgSendRobot hands to the upload a list that holds the path of every
\* file the ProgSave calls on the instance wrote, and nothing else.
C12_UploadsSavedFiles ==
  (last.c.m = "ProgSendRobot" /\ last.exc = "none") =>
    LET handed == env.uploads[Len(env.uploads)].files
    IN  /\ handed.t = "list"
        /\ {handed.v[i] : i \in 1..Len(handed.v)} = WrittenPaths

\* The extension class k gives its files.
ProgExt(k) ==
  CASE k = "BasePost" -> BasePost_PROG_EXT
    [] k = "Precise" -> Precise_PROG_EXT
    [] k = "PythonWriter" -> PythonWriter_PROG_EXT

\* The files the last call wrote.
NewFiles == SubSeq(env.files, Len(last.env0.files) + 1, Len(env.files))

\* C13: ProgSave on a folder that does not exist either creates the folder
\* and writes <folder>/<name>.<extension>, or signals an error; it does not
\* return normally without the file, nor write to another path.
C13_MissingFolder ==
  (last.c.m = "ProgSave" /\ Arg("folder").v \notin last.env0.dirs) =>
    \/ last.exc # "none" /\ NewFiles = <<>>
    \/ /\ last.exc = "none"
       /\ Arg("folder").v \in env.dirs
       /\ Len(NewFiles) = 1
       /\ NewFiles[1].path
            = Arg("folder").v \o "/" \o Arg("progname").v \o "." \o ProgExt(kind)

\* The joint vectors of the last call, if it is a move.
MoveJoints ==
  CASE last.c.m \in {"MoveJ", "MoveL"} -> {Arg("joints")}
    [] last.c.m = "MoveC" -> {Arg("joints1"), Arg("joints2")}
    [] OTHER -> {}

\* The number of labels class k has for the joints of a move.
LabelCount(k) == IF k = "Precise" THEN Len(Precise_data) ELSE Len(BasePost_data)

\* The last call is a move with a joint vector longer than the label table.
LongMove == \E j \in MoveJoints : Len(j.v) > LabelCount(kind)

\* The moves of class k that write their joint vector: MoveJ in the sample
\* post (MoveL and MoveC write poses), every move in Precise.
EncodesJoints(k, m) == IF k = "Precise" THEN TRUE ELSE m = "MoveJ"

\* The last call raised and left the buffer and the log as they were.
RaisedUntouched ==
  /\ last.exc # "none"
  /\ self.PROG = last.self0.PROG
  /\ self.LOG = last.self0.LOG

\* C14, as stated: a move whose joint vector is longer than the backend's
\* label table signals an error and leaves the buffer and the log as they
\* were.
C14_AnyLongMove == (kind \in RealKinds /\ LongMove) => RaisedUntouched

\* C14, amended: a move that writes its joint vector, with a joint vector
\* longer than the backend's label table, signals an error and leaves the
\* buffer and the log as they were.
C14_LongJointVector ==
  (kind \in RealKinds /\ LongMove /\ EncodesJoints(kind, last.c.m)) => RaisedUntouched

\* Precise has refused a move with seven joints after other lines.
C14_Witness ==
  /\ kind = "Precise"
  /\ last.c.m = "MoveJ"
  /\ Len(Arg("joints").v) = 7
  /\ last.exc = "IndexError"
  /\ Before # ""
  /\ After = Before

\* The recorder has just written a file.
RecorderSaved == kind = "PythonWriter" /\ last.c.m = "ProgSave" /\ last.exc = "none"

\* The instruction calls the recorder took since its previous successful save.
RecordedCalls ==
  LET saves == {i \in 1..(Len(calls) - 1) :
                  calls[i].c.m = "ProgSave" /\ calls[i].exc = "none"}
      prev == IF saves = {} THEN 0 ELSE CHOOSE i \in saves : \A j \in saves : j <= i
  IN  SelectSeq(SubSeq(calls, prev + 1, Len(calls) - 1),
                LAMBDA x : x.c.m \notin {"ProgSave", "ProgSendRobot"})

\* The number of configuration keys that are not base fields.
ExtraKeys(obj) ==
  Len(SelectSeq(obj.config, LAMBDA e : e.k \notin PythonWriter_cfg_to_remove))

EndsWith(s, w) == Len(w) <= Len(s) /\ SubSeq(s, Len(s) - Len(w) + 1, Len(s)) = w

\* C15: the file the recorder writes holds, in this order: the path setup,
\* the import of the real backend, the entry routine's definition, the
\* construction of the instance, the extra configuration assignments, every
\* recorded statement in recording order, one save statement, and the entry
\* guard that calls the entry routine.
C15_FileOrder ==
  RecorderSaved =>
    LET lines == SplitLines(env.files[Len(env.files)].text)
        rec == RecordedCalls
        h == 8 + ExtraKeys(last.self0)
        n == Len(lines)
    IN  /\ n = h + Len(rec) + 3
        /\ IsPrefix("sys.path.insert(", lines[3])
        /\ IsPrefix("from robodk_postprocessors.", lines[4])
        /\ EndsWith(lines[4], " import RobotPost")
        /\ lines[7] = "def run_post():"
        /\ IsPrefix("\trobot = RobotPost(", lines[8])
        /\ \A i \in 9..h :
             /\ IsPrefix(CallPrefix, lines[i])
             /\ ~IsCallLine(lines[i])
             /\ HasSub(lines[i], " = ")
        /\ \A i \in 1..Len(rec) :
             /\ IsPrefix(CallPrefix \o rec[i].c.m \o "(", lines[h + i])
             /\ lines[h + i] = last.self0.PROG[i]
        /\ IsPrefix(CallPrefix \o "ProgSave(", lines[n - 2])
        /\ lines[n - 1] = "if __name__== \"__main__\":"
        /\ lines[n] = "\trun_post()"

\* A recorder built from a config with an extra key has saved two statements.
C15_Witness ==
  /\ RecorderSaved
  /\ ExtraKeys(last.self0) >= 1
  /\ Len(RecordedCalls) = 2
  /\ RecordedCalls[1].c.m # RecordedCalls[2].c.m

\* The keys every backend is built from; the others are extra configuration.
BaseFields == {"real_robot_post", "robot_post", "robot_name", "robot_axes"}

\* The lines of the last file before its first recorded statement.
HeaderLines ==
  LET lines == SplitLines(env.files[Len(env.files)].text)
  IN  SubSeq(lines, 1, Len(lines) - 3 - Len(RecordedCalls))

\* The header lines that assign field k of the constructed instance.
Assignments(k) ==
  SelectSeq(HeaderLines, LAMBDA l : IsPrefix(CallPrefix \o k \o " = ", l))

\* C16: the header of a recorded file constructs the real backend with the
\* real backend identifier, the robot name and the axis count the recorder was
\* built with, and holds exactly one assignment, of the key's value, for every
\* other key the recorder was built with, through from_config or through the
\* constructor.
C16_HeaderKeepsConfig ==
  RecorderSaved =>
    /\ SelectSeq(HeaderLines, LAMBDA l : IsPrefix("\trobot = RobotPost(", l))
         = <<"\trobot = RobotPost('"
               \o PyStr(ConfigGet(built.cfg, "real_robot_post", VStr("")))
               \o "', '" \o PyStr(ConfigGet(built.cfg, "robot_name", VStr("")))
               \o "', " \o PyStr(ConfigGet(built.cfg, "robot_axes", VInt(6)))
               \o ")">>
    /\ \A j \in 1..Len(built.cfg) :
         built.cfg[j].k \notin BaseFields =>
           LET a == Assignments(built.cfg[j].k)
           IN  /\ Len(a) = 1
               /\ PyEval(SubSeq(a[1], Len(CallPrefix \o built.cfg[j].k \o " = ") + 1,
                                Len(a[1]))) = built.cfg[j].v

\* C16, for recorders built through from_config only.
C16_FromConfig == built.via = "from_config" => C16_HeaderKeepsConfig

\* The fields the instances must not share: buffer, log, program counter,
\* saved-file list, frame and tool.
StateFields == {"PROG", "LOG", "nPROGS", "PROG_FILES", "FRAME", "TOOL"}

\* C17: whatever calls the first instance has taken, a second instance of the
\* same class reads its buffer, log, program counter, saved-file list, frame
\* and tool as its construction left them.
C17_NoSharedState ==
  \A f \in StateFields \cap DOMAIN View(peer, shared) :
    View(peer, shared)[f] = Construct(kind, built)[f]

\* The first instance has emitted, counted, set its frame and saved a file,
\* and the second instance reads the saved-file list from the class.
C17_Witness ==
  /\ kind = "Precise"
  /\ self.nPROGS = 1
  /\ self.PROG # ""
  /\ self.PROG_FILES # VList(<<>>)
  /\ "PROG_FILES" \notin DOMAIN peer
  /\ last.c.m = "ProgSave"

\* The last call has written a file.
FileWritten == Len(env.files) > Len(last.env0.files)

\* C18: a ProgSave that writes its file while the log is not empty shows the
\* log to the caller, whatever ask_user and show_result are.
C18_LogSurfaced ==
  (last.c.m = "ProgSave" /\ FileWritten /\ last.self0.LOG # "") =>
    /\ Len(env.mbox) = Len(last.env0.mbox) + 1
    /\ HasSub(env.mbox[Len(env.mbox)], last.self0.LOG)

\* C18, for the saves asked to show their result.
C18_ShownWhenAsked ==
  (/\ last.c.m = "ProgSave" /\ FileWritten /\ last.self0.LOG # ""
   /\ "show_result" \in DOMAIN last.c.a /\ Truthy(Arg("show_result"))) =>
    /\ Len(env.mbox) = Len(last.env0.mbox) + 1
    /\ HasSub(env.mbox[Len(env.mbox)], last.self0.LOG)

\* How many of the calls made were calls of method m.
CallsOf(m) == Len(SelectSeq(calls, LAMBDA x : x.c.m = m))

\* How many lines of Precise's buffer are the line l.
LinesEqual(l) == Len(SelectSeq(SplitLines(self.PROG), LAMBDA x : x = l))

\* C19: in Precise the counter nPROGS counts the ProgStart calls, never
\* decreases and is left alone by ProgSave; the first ProgStart emits the
\* module preamble, from 'Module GPL' to 'Robot.Home', and no later one emits
\* anything; the buffer holds the preamble once and the footer, 'End Sub' and
\* 'End Module', once per ProgFinish.
C19_PreambleOnce ==
  kind = "Precise" =>
    /\ self.nPROGS = CallsOf("ProgStart")
    /\ self.nPROGS >= last.self0.nPROGS
    /\ last.c.m = "ProgSave" => self.nPROGS = last.self0.nPROGS
    /\ last.c.m = "ProgStart" =>
         IF last.self0.nPROGS = 0
         THEN /\ IsPrefix("Module GPL\n", Emitted)
              /\ EndsWith(Emitted, "        Robot.Home\n")
         ELSE After = Before
    /\ LinesEqual("Module GPL") = (IF CallsOf("ProgStart") >= 1 THEN 1 ELSE 0)
    /\ LinesEqual("        Robot.Home") = (IF CallsOf("ProgStart") >= 1 THEN 1 ELSE 0)
    /\ LinesEqual("    End Sub") = CallsOf("ProgFinish")
    /\ LinesEqual("End Module") = CallsOf("ProgFinish")

\* Precise has taken two ProgStart/ProgFinish pairs.
C19_Witness ==
  /\ kind = "Precise"
  /\ Len(calls) = 4
  /\ \A i \in 1..4 : calls[i].c.m = (IF i \in {1, 3} THEN "ProgStart" ELSE "ProgFinish")
  /\ self.nPROGS = 2

\* Precise has started a second program after a save.
C19_StartAfterSave ==
  /\ kind = "Precise"
  /\ last.c.m = "ProgStart"
  /\ last.self0.nPROGS = 1
  /\ \E i \in 1..Len(calls) : calls[i].c.m = "ProgSave" /\ calls[i].exc = "none"

\* The methods the recorder intercepts: every instruction; ProgSave and
\* ProgSendRobot are its own.
Intercepted(m) == m \notin {"none", "ProgSave", "ProgSendRobot"}

\* Where the statement s passes parameter p by name (0: nowhere).
KwAt(s, p) ==
  LET at == {i \in 2..Len(s) :
               /\ StartsWith(s, i, p \o "=")
               /\ \/ Ch(s, i - 1) = "("
                  \/ i > 2 /\ SubSeq(s, i - 2, i - 1) = ", "}
  IN  IF at = {} THEN 0 ELSE CHOOSE i \in at : \A j \in at : i <= j

\* C20: a call the recorder intercepts appends one statement to the buffer
\* and changes nothing else; the statement names the parameters the caller
\* passed, each once and in signature order, never the receiver, and no
\* parameter the caller left out.
C20_OneStatementPerCall ==
  (kind = "PythonWriter" /\ Intercepted(last.c.m) /\ last.exc = "none") =>
    LET sig == Signature(last.c.m)
        stmt == self.PROG[Len(self.PROG)]
    IN  /\ Len(self.PROG) = Len(last.self0.PROG) + 1
        /\ self = [last.self0 EXCEPT !.PROG = Append(@, stmt)]
        /\ env = last.env0
        /\ IsPrefix(CallPrefix \o last.c.m \o "(", stmt)
        /\ EndsWith(stmt, ")")
        /\ KwAt(stmt, "self") = 0
        /\ \A i \in 1..Len(sig) : (KwAt(stmt, sig[i]) > 0) = (sig[i] \in DOMAIN last.c.a)
        /\ \A i, j \in 1..Len(sig) :
             (i < j /\ sig[i] \in DOMAIN last.c.a /\ sig[j] \in DOMAIN last.c.a) =>
               KwAt(stmt, sig[i]) < KwAt(stmt, sig[j])

\* The recorder has taken a call that passes two parameters and leaves one at
\* its default.
C20_Witness ==
  /\ kind = "PythonWriter"
  /\ Intercepted(last.c.m)
  /\ last.exc = "none"
  /\ Cardinality(DOMAIN last.c.a) >= 2
  /\ \E i \in 1..Len(Signature(last.c.m)) : Signature(last.c.m)[i] \notin DOMAIN last.c.a
  /\ last.self0.PROG # <<>>

\* The save statement of the last file, as the interpreter reads it.
SaveStatement ==
  LET lines == SplitLines(env.files[Len(env.files)].text)
  IN  ParseCall(lines[Len(lines) - 2])

\* The first two arguments of the constructor call of the last file's header,
\* as the interpreter reads them.
ConstructorArgs ==
  LET pre == "\trobot = RobotPost("
      l == SelectSeq(HeaderLines, LAMBDA x : IsPrefix(pre, x))[1]
      r1 == ParseValue(l, Len(pre) + 1)
      r2 == IF r1.val.t = "SyntaxError" THEN ParseFail ELSE ParseValue(l, r1.next + 2)
  IN  <<r1.val, r2.val>>

\* C21: the string literals of a recorded file read back as the strings the
\* recorder held: the constructor's backend identifier and robot name, and the
\* save statement's folder and program name, also when a string holds a quote
\* or a backslash.
C21_LiteralsReadBack ==
  RecorderSaved =>
    /\ ConstructorArgs = <<VStr(last.self0.real_robot_post), last.self0.ROBOT_NAME>>
    /\ SaveStatement.exc = "none"
    /\ SaveStatement.exc = "none" =>
         /\ SaveStatement.c.m = "ProgSave"
         /\ DOMAIN SaveStatement.c.a = {"folder", "progname"}
         /\ SaveStatement.c.a["folder"] = Arg("folder")
         /\ SaveStatement.c.a["progname"] = Arg("progname")

\* C21, for folders and names without a quote or a backslash.
C21_PlainStrings ==
  (/\ RecorderSaved
   /\ ~HasSub(Arg("folder").v \o Arg("progname").v, "'")
   /\ ~HasSub(Arg("folder").v \o Arg("progname").v, "\\")) => C21_LiteralsReadBack

\* The last call was a ProgSave of a dialect that had to ask for the
\* destination, and the dialog gave no file.
NoFileChosen ==
  /\ kind \in RealKinds
  /\ last.c.m = "ProgSave"
  /\ Truthy(Arg("ask_user")) \/ Arg("folder").v \notin last.env0.dirs
  /\ Len(env.dialogs) = Len(last.env0.dialogs) + 1
  /\ env.dialogs[Len(env.dialogs)] = VNone

\* A save dialog of the session was cancelled before the last call.
CancelledBefore == \E i \in 1..Len(last.env0.dialogs) : last.env0.dialogs[i] = VNone

\* C22: in the sample post and in Precise, a ProgSave that asks for the
\* destination and gets no file returns normally, writes no file, shows no
\* log, and leaves the buffer, the log and the saved-file list as they were;
\* a later ProgSave that writes its file writes the whole buffer.
C22_CancelledSave ==
  /\ NoFileChosen =>
       /\ last.exc = "none"
       /\ env.files = last.env0.files
       /\ env.mbox = last.env0.mbox
       /\ env.opened = last.env0.opened
       /\ self.PROG = last.self0.PROG
       /\ self.LOG = last.self0.LOG
       /\ self.PROG_FILES = last.self0.PROG_FILES
  /\ (kind \in RealKinds /\ last.c.m = "ProgSave" /\ FileWritten /\ CancelledBefore) =>
       /\ env.files[Len(env.files)].text = ProgText(kind, last.self0)
       /\ ProgText(kind, self) = ProgText(kind, last.self0)

\* A dialect has emitted lines, had its save cancelled, and then saved them.
C22_Witness ==
  /\ kind \in RealKinds
  /\ Len(calls) = 3
  /\ calls[1].c.m = "ProgStart"
  /\ calls[2].c.m = "ProgSave"
  /\ last.env0.dialogs = <<VNone>>
  /\ last.c.m = "ProgSave"
  /\ FileWritten
  /\ env.files[Len(env.files)].text # ""
====
